---------------------------- MODULE Spec2Model ----------------------------
(***************************************************************************)
(* A model of claude-code-manager: the StatusDetector state machine        *)
(* (lib/status-detector.js) and the SessionManager that owns one detector  *)
(* and at most one PtyHandler per session (lib/session-manager.js,         *)
(* lib/pty-handler.js).                                                    *)
(*                                                                         *)
(* Strings are sequences of one-character strings.  The control            *)
(* characters the code's regular expressions name are the tokens ESC, BEL, *)
(* BS, DEL, TAB, CR and LF.                                                *)
(*                                                                         *)
(* Time is the wall clock of Date.now().  The model keeps, instead of      *)
(* absolute instants, the age of each instant the code stores, in          *)
(* milliseconds, and lets the clock advance TimeStep at a time.  An age    *)
(* stops growing once it is past the threshold the code compares it with.  *)
(***************************************************************************)
EXTENDS Integers, Sequences, FiniteSets, TLC

(***************************************************************************)
(* Bounds of the model                                                     *)
(***************************************************************************)
TimeStep == 250
MaxOutputs == 2
MaxDraft == 1
MaxSessions == 1
MaxPtys == 3
MaxSessionOutputs == 1
UsageStep == 5000
MaxUsageProbes == 3
ContextStep == 30000
MaxContextCalls == 3
MaxChunks == 3
SumStep == 5000
MaxForwarded == 3

(***************************************************************************)
(* Characters                                                              *)
(***************************************************************************)
ESC == "ESC"
BEL == "BEL"
BS == "BS"
DEL == "DEL"
TAB == "TAB"
CR == "CR"
LF == "LF"

Digits == <<"0", "1", "2", "3", "4", "5", "6", "7", "8", "9">>
UpperCase == <<"A", "B", "C", "D", "E", "F", "G", "H", "I", "J", "K", "L", "M",
               "N", "O", "P", "Q", "R", "S", "T", "U", "V", "W", "X", "Y", "Z">>
LowerCase == <<"a", "b", "c", "d", "e", "f", "g", "h", "i", "j", "k", "l", "m",
               "n", "o", "p", "q", "r", "s", "t", "u", "v", "w", "x", "y", "z">>

Range(f) == {f[i] : i \in DOMAIN f}

\* [0-9]
IsDigit(c) == c \in Range(Digits)
\* [A-Za-z]
IsAlpha(c) == c \in Range(UpperCase) \cup Range(LowerCase)
\* [\x00-\x1F\x7F]
IsControl(c) == c \in {ESC, BEL, BS, DEL, TAB, CR, LF}
\* \s
IsSpace(c) == c \in {" ", TAB, CR, LF}
\* a line terminator, which "." does not match
IsLineEnd(c) == c \in {CR, LF}

\* the lower-case form of a character (the i flag of a pattern)
LowerOf ==
    [c \in Range(UpperCase) |-> LowerCase[CHOOSE i \in DOMAIN UpperCase : UpperCase[i] = c]]

ToLower(c) == IF c \in DOMAIN LowerOf THEN LowerOf[c] ELSE c

LowerSeq(s) == [i \in DOMAIN s |-> ToLower(s[i])]

Max(a, b) == IF a > b THEN a ELSE b

(***************************************************************************)
(* Pattern matching on character sequences                                 *)
(***************************************************************************)
\* sub occurs in s at index i
MatchAt(s, sub, i) ==
    /\ i >= 1
    /\ i + Len(sub) - 1 <= Len(s)
    /\ \A k \in 1..Len(sub) : s[i + k - 1] = sub[k]

\* sub occurs somewhere in s
Contains(s, sub) == \E i \in 1..Len(s) : MatchAt(s, sub, i)

\* sub occurs somewhere in s, whatever the case of s (sub is in lower case)
ContainsI(s, sub) == Contains(LowerSeq(s), sub)

\* the index of the last character of s that is not white space, 0 if none
RECURSIVE LastNonSpace(_, _)
LastNonSpace(s, i) ==
    IF i = 0 THEN 0
    ELSE IF IsSpace(s[i]) THEN LastNonSpace(s, i - 1)
    ELSE i

\* /c\s*$/ : s ends with c and then white space only
EndsWithThenSpace(s, c) ==
    LET k == LastNonSpace(s, Len(s))
    IN  k > 0 /\ s[k] = c

\* the first index j >= i of s at which a character is not in the set cs
RECURSIVE SkipWhile(_, _, _)
SkipWhile(s, i, cs) ==
    IF i <= Len(s) /\ s[i] \in cs THEN SkipWhile(s, i + 1, cs) ELSE i

\* the first index j >= i of s at which the character is c, Len(s)+1 if none
RECURSIVE FindChar(_, _, _)
FindChar(s, i, c) ==
    IF i > Len(s) THEN i
    ELSE IF s[i] = c THEN i
    ELSE FindChar(s, i + 1, c)

\* s without its leading and trailing white space
RECURSIVE FirstNonSpace(_, _)
FirstNonSpace(s, i) ==
    IF i > Len(s) THEN i
    ELSE IF IsSpace(s[i]) THEN FirstNonSpace(s, i + 1)
    ELSE i

Trim(s) ==
    LET a == FirstNonSpace(s, 1)
        b == LastNonSpace(s, Len(s))
    IN  IF a > b THEN <<>> ELSE SubSeq(s, a, b)

\* the last n characters of s
SliceLast(s, n) ==
    IF Len(s) <= n THEN s ELSE SubSeq(s, Len(s) - n + 1, Len(s))

\* the first n characters of s
SliceFirst(s, n) ==
    IF Len(s) <= n THEN s ELSE SubSeq(s, 1, n)

(***************************************************************************)
(* Escape sequences.  Each XxxEnd(s, i) is the index of the last character *)
(* of the match of the pattern that starts at index i of s, 0 if the       *)
(* pattern does not match there.                                           *)
(***************************************************************************)
\* /\x1b\[[0-9;]*[A-Za-z]/
CsiEnd(s, i) ==
    IF i + 1 <= Len(s) /\ s[i] = ESC /\ s[i + 1] = "["
    THEN LET j == SkipWhile(s, i + 2, Range(Digits) \cup {";"})
         IN  IF j <= Len(s) /\ IsAlpha(s[j]) THEN j ELSE 0
    ELSE 0

\* /\x1b\][^\x07]*\x07/
OscEnd(s, i) ==
    IF i + 1 <= Len(s) /\ s[i] = ESC /\ s[i + 1] = "]"
    THEN LET j == FindChar(s, i + 2, BEL)
         IN  IF j <= Len(s) THEN j ELSE 0
    ELSE 0

\* /\x1b[PX^_][^\x1b]*\x1b\\/
DcsEnd(s, i) ==
    IF i + 1 <= Len(s) /\ s[i] = ESC /\ s[i + 1] \in {"P", "X", "^", "_"}
    THEN LET j == FindChar(s, i + 2, ESC)
         IN  IF j + 1 <= Len(s) /\ s[j + 1] = "\\" THEN j + 1 ELSE 0
    ELSE 0

\* /\x1b./
EscAnyEnd(s, i) ==
    IF i + 1 <= Len(s) /\ s[i] = ESC /\ ~IsLineEnd(s[i + 1])
    THEN i + 1
    ELSE 0

\* the first index j >= i of s at which the character is ESC, Len(s)+1 if
\* none: where the next match of a pattern that begins with ESC can start
NextEsc(s, i) ==
    IF \E j \in i..Len(s) : s[j] = ESC
    THEN CHOOSE j \in i..Len(s) : s[j] = ESC /\ \A k \in i..(j - 1) : s[k] # ESC
    ELSE Len(s) + 1

\* s.replace(/\x1b\[[0-9;]*[A-Za-z]/g, '')
RECURSIVE StripCsi(_, _)
StripCsi(s, i) ==
    LET j == NextEsc(s, i)
    IN  IF j > Len(s) THEN SubSeq(s, i, Len(s))
        ELSE LET e == CsiEnd(s, j)
             IN  IF e > 0 THEN SubSeq(s, i, j - 1) \o StripCsi(s, e + 1)
                 ELSE SubSeq(s, i, j) \o StripCsi(s, j + 1)

\* s.replace(/\x1b\][^\x07]*\x07/g, '')
RECURSIVE StripOsc(_, _)
StripOsc(s, i) ==
    LET j == NextEsc(s, i)
    IN  IF j > Len(s) THEN SubSeq(s, i, Len(s))
        ELSE LET e == OscEnd(s, j)
             IN  IF e > 0 THEN SubSeq(s, i, j - 1) \o StripOsc(s, e + 1)
                 ELSE SubSeq(s, i, j) \o StripOsc(s, j + 1)

\* s.replace(/\x1b[PX^_][^\x1b]*\x1b\\/g, '')
RECURSIVE StripDcs(_, _)
StripDcs(s, i) ==
    LET j == NextEsc(s, i)
    IN  IF j > Len(s) THEN SubSeq(s, i, Len(s))
        ELSE LET e == DcsEnd(s, j)
             IN  IF e > 0 THEN SubSeq(s, i, j - 1) \o StripDcs(s, e + 1)
                 ELSE SubSeq(s, i, j) \o StripDcs(s, j + 1)

\* s.replace(/\x1b./g, '')
RECURSIVE StripEscAny(_, _)
StripEscAny(s, i) ==
    LET j == NextEsc(s, i)
    IN  IF j > Len(s) THEN SubSeq(s, i, Len(s))
        ELSE LET e == EscAnyEnd(s, j)
             IN  IF e > 0 THEN SubSeq(s, i, j - 1) \o StripEscAny(s, e + 1)
                 ELSE SubSeq(s, i, j) \o StripEscAny(s, j + 1)

\* s.replace(/[\x00-\x1F\x7F]/g, '')
StripControl(s) == SelectSeq(s, LAMBDA c : ~IsControl(c))

stripAnsi(str) ==
    StripEscAny(StripDcs(StripOsc(StripCsi(str, 1), 1), 1), 1)

\* /\x1b\[\d*A/ or /\x1b\[\d*G/ matches at index i of s
CursorMoveAt(s, i) ==
    /\ i + 1 <= Len(s)
    /\ s[i] = ESC
    /\ s[i + 1] = "["
    /\ LET j == SkipWhile(s, i + 2, Range(Digits))
       IN  j <= Len(s) /\ s[j] \in {"A", "G"}

isUiRedraw(str) ==
    \/ \E i \in 1..Len(str) : CursorMoveAt(str, i)
    \/ Contains(str, <<ESC, "[", "2", "K">>)

(***************************************************************************)
(* StatusDetector: constants                                               *)
(***************************************************************************)
\* the rolling window of terminalBuffer
WindowCap == 2000
\* a burst is over when more than this has passed since it began
BurstResetMs == 500
\* more visible characters than this in a burst is "substantial output"
BurstThreshold == 20
\* the delay of the pending working transition
DebounceMs == 150
\* the pending working transition needs more visible characters than this
DebounceThreshold == 5
\* tick() acts after more than this without output
SilenceMs == 2000
\* output is ignored for this long after a resize
CooldownMs == 500
\* pendingWorkingTimeout = null
NoTimer == -1

\* the age that stands for every age greater than the threshold
Past(threshold) == threshold + TimeStep

\* an age, TimeStep later; it stops growing once past the threshold the
\* code compares it with
Older(age, threshold) ==
    IF age + TimeStep > threshold THEN Past(threshold) ELSE age + TimeStep

(***************************************************************************)
(* StatusDetector: patterns                                                *)
(***************************************************************************)
EnterToSelect == <<"e", "n", "t", "e", "r", " ", "t", "o", " ", "s", "e", "l", "e", "c", "t">>
EscToCancel == <<"e", "s", "c", " ", "t", "o", " ", "c", "a", "n", "c", "e", "l">>

\* /Enter to select.*Esc to cancel/i, on the lower-case form l of the text
MatchesSelectCancel(l) ==
    \E i \in 1..Len(l) :
        /\ MatchAt(l, EnterToSelect, i)
        /\ \E j \in (i + Len(EnterToSelect))..Len(l) :
              /\ MatchAt(l, EscToCancel, j)
              /\ \A k \in (i + Len(EnterToSelect))..(j - 1) : ~IsLineEnd(l[k])

\* some pattern of waitingPatterns matches s
MatchesWaiting(s) ==
    LET l == LowerSeq(s)
    IN  \/ EndsWithThenSpace(s, "?")
        \/ Contains(l, <<"(", "y", "/", "n", ")">>)
        \/ Contains(l, <<"[", "y", "/", "n", "]">>)
        \/ Contains(l, <<"[", "y", "e", "s", "/", "n", "o", "]">>)
        \/ Contains(l, <<"p", "r", "e", "s", "s", " ", "e", "n", "t", "e", "r">>)
        \/ Contains(l, <<"c", "o", "n", "t", "i", "n", "u", "e", "?">>)
        \/ Contains(l, <<"p", "r", "o", "c", "e", "e", "d", "?">>)
        \/ Contains(l, <<"c", "o", "n", "f", "i", "r", "m">>)
        \/ Contains(l, <<"(", "y", "e", "s", "/", "n", "o", ")">>)
        \/ MatchesSelectCancel(l)

\* some pattern of idlePatterns matches s
MatchesIdle(s) ==
    \/ EndsWithThenSpace(s, ">")
    \/ EndsWithThenSpace(s, "$")

(***************************************************************************)
(* StatusDetector: state and methods.  A detector is a record; a method is *)
(* an operator from the detector (and the call's argument) to              *)
(* [det |-> the detector after the call,                                   *)
(*  fired |-> the statuses passed to onStatusChange during the call].      *)
(***************************************************************************)
Statuses == {"idle", "working", "waiting", "draft", "error"}

\* new StatusDetector()
NewDetector ==
    [ status                |-> "idle",
      draftLength           |-> 0,
      outputBuffer          |-> <<>>,
      terminalBuffer        |-> <<>>,
      lastOutput            |-> <<>>,
      sinceOutput           |-> Past(SilenceMs),     \* Date.now() - lastOutputTime
      sinceBurst            |-> Past(BurstResetMs),  \* Date.now() - outputBurstStart
      cooldownLeft          |-> 0,       \* resizeCooldownUntil - Date.now(), 0 when past
      pendingWorkingTimeout |-> NoTimer, \* time left of the timer, NoTimer when none
      timers                |-> 0,       \* callbacks given to setTimeout that have not run yet
      onStatusChange        |-> FALSE ]  \* a callback is set

Silent(d) == [det |-> d, fired |-> <<>>]

updateStatus(d, newStatus) ==
    IF newStatus # d.status
    THEN [ det   |-> [d EXCEPT !.status = newStatus],
           fired |-> IF d.onStatusChange THEN <<newStatus>> ELSE <<>> ]
    ELSE Silent(d)

\* onOutput with the length rule tried before the waiting patterns
onOutputLengthFirst(d, data) ==
    LET d1 == [d EXCEPT !.sinceOutput = 0,
                        !.lastOutput = data,
                        !.terminalBuffer = SliceLast(@ \o data, WindowCap)]
    IN  IF d1.cooldownLeft > 0 THEN Silent(d1)
        ELSE IF isUiRedraw(data) THEN Silent(d1)
        ELSE
          LET visibleData == stripAnsi(data)
              newBurst == d1.sinceBurst > BurstResetMs
              buffer == (IF newBurst THEN <<>> ELSE d1.outputBuffer) \o visibleData
              d2 == [d1 EXCEPT !.outputBuffer = buffer,
                               !.sinceBurst = IF newBurst THEN 0 ELSE @]
          IN  IF Len(buffer) > BurstThreshold /\ d2.draftLength = 0
                   THEN updateStatus(d2, "working")
              ELSE IF MatchesWaiting(buffer) THEN updateStatus(d2, "waiting")
              ELSE IF /\ d2.pendingWorkingTimeout = NoTimer
                      /\ d2.status # "working"
                      /\ d2.draftLength = 0
                   THEN Silent([d2 EXCEPT !.pendingWorkingTimeout = DebounceMs, !.timers = @ + 1])
              ELSE Silent(d2)

\* onOutput with every working transition left to the debounce timer
onOutputDebounceOnly(d, data) ==
    LET d1 == [d EXCEPT !.sinceOutput = 0,
                        !.lastOutput = data,
                        !.terminalBuffer = SliceLast(@ \o data, WindowCap)]
    IN  IF d1.cooldownLeft > 0 THEN Silent(d1)
        ELSE IF isUiRedraw(data) THEN Silent(d1)
        ELSE
          LET visibleData == stripAnsi(data)
              newBurst == d1.sinceBurst > BurstResetMs
              buffer == (IF newBurst THEN <<>> ELSE d1.outputBuffer) \o visibleData
              d2 == [d1 EXCEPT !.outputBuffer = buffer,
                               !.sinceBurst = IF newBurst THEN 0 ELSE @]
          IN  IF MatchesWaiting(buffer) THEN updateStatus(d2, "waiting")
              ELSE IF /\ d2.pendingWorkingTimeout = NoTimer
                      /\ d2.status # "working"
                      /\ d2.draftLength = 0
                   THEN Silent([d2 EXCEPT !.pendingWorkingTimeout = DebounceMs, !.timers = @ + 1])
              ELSE Silent(d2)

\* onOutput without the resize cooldown
onOutputNoCooldown(d, data) ==
    LET d1 == [d EXCEPT !.sinceOutput = 0,
                        !.lastOutput = data,
                        !.terminalBuffer = SliceLast(@ \o data, WindowCap)]
    IN  IF isUiRedraw(data) THEN Silent(d1)
        ELSE
          LET visibleData == stripAnsi(data)
              newBurst == d1.sinceBurst > BurstResetMs
              buffer == (IF newBurst THEN <<>> ELSE d1.outputBuffer) \o visibleData
              d2 == [d1 EXCEPT !.outputBuffer = buffer,
                               !.sinceBurst = IF newBurst THEN 0 ELSE @]
          IN  IF MatchesWaiting(buffer) THEN updateStatus(d2, "waiting")
              ELSE IF Len(buffer) > BurstThreshold /\ d2.draftLength = 0
                   THEN updateStatus(d2, "working")
              ELSE IF /\ d2.pendingWorkingTimeout = NoTimer
                      /\ d2.status # "working"
                      /\ d2.draftLength = 0
                   THEN Silent([d2 EXCEPT !.pendingWorkingTimeout = DebounceMs, !.timers = @ + 1])
              ELSE Silent(d2)

\* onOutput without the redraw test
onOutputCountsRedraw(d, data) ==
    LET d1 == [d EXCEPT !.sinceOutput = 0,
                        !.lastOutput = data,
                        !.terminalBuffer = SliceLast(@ \o data, WindowCap)]
    IN  IF d1.cooldownLeft > 0 THEN Silent(d1)
        ELSE
          LET visibleData == stripAnsi(data)
              newBurst == d1.sinceBurst > BurstResetMs
              buffer == (IF newBurst THEN <<>> ELSE d1.outputBuffer) \o visibleData
              d2 == [d1 EXCEPT !.outputBuffer = buffer,
                               !.sinceBurst = IF newBurst THEN 0 ELSE @]
          IN  IF MatchesWaiting(buffer) THEN updateStatus(d2, "waiting")
              ELSE IF Len(buffer) > BurstThreshold /\ d2.draftLength = 0
                   THEN updateStatus(d2, "working")
              ELSE IF /\ d2.pendingWorkingTimeout = NoTimer
                      /\ d2.status # "working"
                      /\ d2.draftLength = 0
                   THEN Silent([d2 EXCEPT !.pendingWorkingTimeout = DebounceMs, !.timers = @ + 1])
              ELSE Silent(d2)

onOutput(d, data) ==
    LET d1 == [d EXCEPT !.sinceOutput = 0,
                        !.lastOutput = data,
                        !.terminalBuffer = SliceLast(@ \o data, WindowCap)]
    IN  IF d1.cooldownLeft > 0 THEN Silent(d1)
        ELSE IF isUiRedraw(data) THEN Silent(d1)
        ELSE
          LET visibleData == stripAnsi(data)
              newBurst == d1.sinceBurst > BurstResetMs
              buffer == (IF newBurst THEN <<>> ELSE d1.outputBuffer) \o visibleData
              d2 == [d1 EXCEPT !.outputBuffer = buffer,
                               !.sinceBurst = IF newBurst THEN 0 ELSE @]
          IN  IF MatchesWaiting(buffer) THEN updateStatus(d2, "waiting")
              ELSE IF Len(buffer) > BurstThreshold /\ d2.draftLength = 0
                   THEN updateStatus(d2, "working")
              ELSE IF /\ d2.pendingWorkingTimeout = NoTimer
                      /\ d2.status # "working"
                      /\ d2.draftLength = 0
                   THEN Silent([d2 EXCEPT !.pendingWorkingTimeout = DebounceMs, !.timers = @ + 1])
              ELSE Silent(d2)

\* the callback of the timer without the test of the burst buffer's length
workingTimeoutAnyLength(d) ==
    LET d1 == [d EXCEPT !.pendingWorkingTimeout = NoTimer, !.timers = @ - 1]
    IN  IF d1.draftLength = 0
        THEN updateStatus(d1, "working")
        ELSE Silent(d1)

\* the callback of the timer set in onOutput
workingTimeout(d) ==
    LET d1 == [d EXCEPT !.pendingWorkingTimeout = NoTimer, !.timers = @ - 1]
    IN  IF Len(d1.outputBuffer) > DebounceThreshold /\ d1.draftLength = 0
        THEN updateStatus(d1, "working")
        ELSE Silent(d1)

\* the loop of onInput over the characters of cleanedData
RECURSIVE draftAfter(_, _, _)
draftAfter(len, s, i) ==
    IF i > Len(s) THEN len
    ELSE IF s[i] \in {DEL, BS} THEN draftAfter(Max(0, len - 1), s, i + 1)
    ELSE IF ~IsControl(s[i]) \/ s[i] = TAB THEN draftAfter(len + 1, s, i + 1)
    ELSE draftAfter(len, s, i + 1)

\* onInput that leaves the status alone when the draft is deleted
onInputKeepsDraft(d, data) ==
    IF \E i \in DOMAIN data : data[i] \in {CR, LF}
    THEN LET d1 == [d EXCEPT !.draftLength = 0]
         IN  IF d1.status = "draft" THEN updateStatus(d1, "working") ELSE Silent(d1)
    ELSE
      LET cleanedData == StripCsi(data, 1)
      IN  IF Len(cleanedData) = 0 THEN Silent(d)
          ELSE
            LET d1 == [d EXCEPT !.draftLength = draftAfter(@, cleanedData, 1)]
            IN  IF d1.draftLength > 0 /\ d1.status # "working"
                THEN updateStatus(d1, "draft")
                ELSE Silent(d1)

onInput(d, data) ==
    IF \E i \in DOMAIN data : data[i] \in {CR, LF}
    THEN LET d1 == [d EXCEPT !.draftLength = 0]
         IN  IF d1.status = "draft" THEN updateStatus(d1, "working") ELSE Silent(d1)
    ELSE
      LET cleanedData == StripCsi(data, 1)
      IN  IF Len(cleanedData) = 0 THEN Silent(d)
          ELSE
            LET d1 == [d EXCEPT !.draftLength = draftAfter(@, cleanedData, 1)]
            IN  IF d1.draftLength > 0 /\ d1.status # "working"
                THEN updateStatus(d1, "draft")
                ELSE IF d1.draftLength = 0 /\ d1.status = "draft"
                     THEN updateStatus(d1, "idle")
                ELSE Silent(d1)

\* tick with the draft test tried before the idle patterns
tickDraftFirst(d) ==
    IF d.sinceOutput > SilenceMs /\ d.status = "working"
    THEN IF MatchesWaiting(d.terminalBuffer) THEN updateStatus(d, "waiting")
         ELSE IF d.draftLength > 0 THEN updateStatus(d, "draft")
         ELSE updateStatus(d, "idle")
    ELSE Silent(d)

\* tick without the test of the status
tickAnyStatus(d) ==
    IF d.sinceOutput > SilenceMs
    THEN IF MatchesWaiting(d.terminalBuffer) THEN updateStatus(d, "waiting")
         ELSE IF MatchesIdle(d.terminalBuffer) THEN updateStatus(d, "idle")
         ELSE IF d.draftLength > 0 THEN updateStatus(d, "draft")
         ELSE updateStatus(d, "idle")
    ELSE Silent(d)

tick(d) ==
    IF d.sinceOutput > SilenceMs /\ d.status = "working"
    THEN IF MatchesWaiting(d.terminalBuffer) THEN updateStatus(d, "waiting")
         ELSE IF MatchesIdle(d.terminalBuffer) THEN updateStatus(d, "idle")
         ELSE IF d.draftLength > 0 THEN updateStatus(d, "draft")
         ELSE updateStatus(d, "idle")
    ELSE Silent(d)

onResize(d) ==
    LET d1 == [d EXCEPT !.cooldownLeft = CooldownMs]
    IN  IF d1.draftLength = 0 /\ d1.status = "working"
        THEN updateStatus(d1, "idle")
        ELSE Silent(d1)

\* the detector TimeStep later
elapse(d) ==
    [d EXCEPT !.sinceOutput = Older(@, SilenceMs),
              !.sinceBurst = Older(@, BurstResetMs),
              !.cooldownLeft = Max(0, @ - TimeStep),
              !.pendingWorkingTimeout = IF @ = NoTimer THEN NoTimer ELSE Max(0, @ - TimeStep)]

\* the detector after a pause that lasts until its timer is due or, with no
\* timer set, longer than every threshold
RECURSIVE settle(_)
settle(d) == IF d.pendingWorkingTimeout = 0 \/ elapse(d) = d THEN d ELSE settle(elapse(d))

\* the timer of the detector is due
timerDue(d) == d.pendingWorkingTimeout = 0

(***************************************************************************)
(* Output chunks and inputs                                                *)
(***************************************************************************)
ContinueYN == <<"C", "o", "n", "t", "i", "n", "u", "e", "?", " ", "(", "y", "/", "n", ")">>
ProceedYN == <<"D", "o", " ", "y", "o", "u", " ", "w", "a", "n", "t", " ", "t", "o", " ",
               "p", "r", "o", "c", "e", "e", "d", "?", " ", "(", "y", "/", "n", ")">>
\* 25 visible characters, no waiting pattern
Long25 == <<"R", "e", "a", "d", "i", "n", "g", " ", "t", "h", "e", " ", "p", "r", "o", "j",
            "e", "c", "t", " ", "f", "i", "l", "e", "s">>
\* 25 visible characters that end in a question mark
Long25Q == <<"A", "r", "e", " ", "y", "o", "u", " ", "s", "u", "r", "e", " ", "y", "o", "u",
             " ", "w", "a", "n", "t", " ", "i", "t", "?">>
\* a shell prompt
Prompt == <<"$", " ">>
\* 8 visible characters
Short8 == <<"T", "h", "i", "n", "k", "i", "n", "g">>
\* erase line, then a question
RedrawContinue == <<ESC, "[", "2", "K">> \o ContinueYN
\* 2 visible characters in colour
ColorOk == <<ESC, "[", "3", "2", "m", "o", "k", ESC, "[", "0", "m">>

\* cursor up one line, then 25 visible characters
RedrawLong25 == <<ESC, "[", "1", "A">> \o Long25

\* the chunks the processes of the model write
OutputChunks == {ContinueYN, Long25, Prompt, Short8, RedrawContinue, RedrawLong25}

\* a cursor position report, the terminal's answer to a query
CursorReport == <<ESC, "[", "1", ";", "1", "R">>

InputChunks == {<<"a">>, <<DEL>>, <<CR>>, CursorReport, <<"a", "b", BS>>}

(***************************************************************************)
(* PtyHandler and Summarizer                                               *)
(***************************************************************************)
\* the cap of PtyHandler.buffer and what is kept of it past the cap
BufferCap == 1024 * 1024
BufferKeep == 512 * 1024

\* this.buffer after the onData handler of PtyHandler.spawn took data
bufferAfter(buffer, data) ==
    IF Len(buffer \o data) > BufferCap
    THEN SliceLast(buffer \o data, BufferKeep)
    ELSE buffer \o data

\* the onData handler of the PtyHandler in summarizer.js cuts at a newline found
\* less than NewlineWindow after the cut point
NewlineWindow == 1000

\* the lengths of the chunks a process writes; where the first newline from
\* the cut point on lies, NoNewline for none; how many characters the strip
\* of an orphaned escape sequence removes
ChunkSizes == {1, NewlineWindow, BufferKeep, BufferCap, BufferCap + 1, 3 * BufferCap}
NoNewline == -1
NewlineOffsets == {NoNewline, 0, NewlineWindow - 1, NewlineWindow}
OrphanLengths == {0, 1, 4}

\* a PtyHandler of the given copy (pty-handler.js or the one in summarizer.js)
\* after spawn(), by the length of its buffer.  chunks: the onData calls so
\* far; last: the length of the last chunk; truncated: the last call cut
NewPtyHandler(copy) ==
    [copy |-> copy, length |-> 0, chunks |-> 0, last |-> 0, truncated |-> FALSE]

\* the onData handler with no cap
bufferLengthNoCap(copy, length, n, newline, orphan) == length + n

\* the length of this.buffer after the onData handler took n characters
bufferLength(copy, length, n, newline, orphan) ==
    LET total == length + n
        cutPoint == total - BufferKeep
        cut == IF newline # NoNewline /\ cutPoint + newline < cutPoint + NewlineWindow
               THEN cutPoint + newline + 1
               ELSE cutPoint
    IN  IF total <= BufferCap THEN total
        ELSE IF copy = "pty-handler" THEN BufferKeep
        ELSE total - cut - orphan

\* the sequences the getBuffer of the PtyHandler in summarizer.js prepends:
\* reset of the attributes, ASCII charset, cursor shown, line wrap on
ResetPrefix ==
    <<ESC, "[", "0", "m", ESC, "(", "B", ESC, "[", "?", "2", "5", "h", ESC, "[", "?", "7", "h">>

\* PtyHandler.getBuffer() of the given copy, on this.buffer
handlerGetBuffer(copy, buffer) ==
    IF copy = "pty-handler" THEN buffer ELSE ResetPrefix \o buffer

\* Summarizer.MAX_LENGTH
MAX_LENGTH == 100

\* the cleaning _captureFirstInput and summarize both apply
cleanPrompt(input) == Trim(StripControl(StripOsc(StripCsi(input, 1), 1)))

\* Summarizer.summarize; reply is what _askClaude resolved with, <<>> when it
\* rejected or resolved with the empty string
summarize(prompt, reply) ==
    LET cleaned == cleanPrompt(prompt)
    IN  IF Len(cleaned) <= MAX_LENGTH THEN cleaned
        ELSE IF reply # <<>> THEN reply
        ELSE SliceFirst(cleaned, MAX_LENGTH) \o <<".", ".", ".">>

\* the timeout of _askClaude
AskTimeoutMs == 15000

\* s.replace(/^\[[A-Z]+\]\s*/gi, '')
StripBracketPrefix(s) ==
    IF Len(s) >= 3 /\ s[1] = "["
    THEN LET j == SkipWhile(s, 2, Range(UpperCase) \cup Range(LowerCase))
         IN  IF j > 2 /\ j <= Len(s) /\ s[j] = "]"
             THEN SubSeq(s, SkipWhile(s, j + 1, {" ", TAB, CR, LF}), Len(s))
             ELSE s
    ELSE s

\* s.replace(/^["']|["']$/g, '')
StripQuotes(s) ==
    LET a == IF Len(s) >= 1 /\ s[1] \in {"\"", "'"} THEN 2 ELSE 1
        b == IF Len(s) >= a /\ s[Len(s)] \in {"\"", "'"} THEN Len(s) - 1 ELSE Len(s)
    IN  SubSeq(s, a, b)

\* what the close handler of _askClaude resolves with, for exit code 0 and
\* an output that is not blank
askClaudeResolve(output) ==
    SliceFirst(StripQuotes(Trim(StripBracketPrefix(StripControl(
        StripEscAny(StripOsc(StripCsi(output, 1), 1), 1))))), 100)

\* the reply of _askClaude when its process closes with code and output:
\* <<>> stands for a rejection and for the empty string
askClaudeClosed(code, output) ==
    IF code = 0 /\ Trim(output) # <<>> THEN askClaudeResolve(output) ELSE <<>>

\* summarize that asks the external summarizer for every prompt
asksClaudeAlways(prompt) == cleanPrompt(prompt) # <<>>

\* summarize goes on to _askClaude
asksClaude(prompt) == Len(cleanPrompt(prompt)) > MAX_LENGTH

Repeat(c, n) == [i \in 1..n |-> c]

\* first lines typed into a session, with their Enter, and outputs of the
\* external summarizer
FirstLines ==
    { <<"a", CR>>,
      <<CR>>,
      <<ESC, "[", "1", "m", "f", "i", "x", ESC, "[", "0", "m", CR>>,
      Repeat("x", MAX_LENGTH) \o <<CR>>,
      Repeat("x", MAX_LENGTH + 1) \o <<CR>>,
      Repeat("x", MAX_LENGTH) \o <<" ", "y", "z", CR>> }
AskOutputs ==
    { <<>>,
      Short8,
      <<"\"">> \o Short8 \o <<"\"">>,
      <<"\"", "\"">>,
      <<"[", "I", "]", " ">> \o Short8,
      Repeat("y", MAX_LENGTH + 20) }

\* one session's first-input capture.  input: the line typed; phase: "new"
\* before it is sent, "skipped" when _captureFirstInput returned early,
\* "asking" while summarize awaits _askClaude, "done" once summarize has
\* returned; asked: the external process was spawned; proc: that process;
\* timer: the timeout of _askClaude is set; sinceSpawn: the time since the
\* spawn; returned: what summarize returned; forwarded: the sendInput calls
\* that wrote their bytes to the PTY
NewCapture(input) ==
    [ input          |-> input,
      phase          |-> "new",
      originalPrompt |-> <<>>,
      summary        |-> <<>>,
      asked          |-> FALSE,
      proc           |-> "none",
      timer          |-> FALSE,
      sinceSpawn     |-> 0,
      returned       |-> <<>>,
      forwarded      |-> 0 ]

\* sendInput with the first line, to the return of sendInput; the summary
\* of a short prompt is stored before any other event is handled
captureFirstInput(c) ==
    LET cleaned == cleanPrompt(c.input)
    IN  IF cleaned = <<>>
        THEN [c EXCEPT !.phase = "skipped", !.forwarded = @ + 1]
        ELSE IF asksClaude(cleaned)
        THEN [c EXCEPT !.phase = "asking",
                       !.originalPrompt = cleaned,
                       !.asked = TRUE,
                       !.proc = "running",
                       !.timer = TRUE,
                       !.sinceSpawn = 0,
                       !.forwarded = @ + 1]
        ELSE [c EXCEPT !.phase = "done",
                       !.originalPrompt = cleaned,
                       !.returned = summarize(cleaned, <<>>),
                       !.summary = summarize(cleaned, <<>>),
                       !.forwarded = @ + 1]

\* _askClaude settles with reply, and summarize and _captureFirstInput go on
askSettled(c, reply) ==
    IF c.phase = "asking"
    THEN [c EXCEPT !.phase = "done",
                   !.returned = summarize(c.originalPrompt, reply),
                   !.summary = summarize(c.originalPrompt, reply)]
    ELSE c

\* the timeout of _askClaude that kills the process and rejects nothing
askTimeoutKillOnly(c) ==
    [c EXCEPT !.timer = FALSE,
              !.proc = IF @ = "running" THEN "killed" ELSE @]

\* the timeout of _askClaude fires: proc.kill() and reject
askTimeout(c) ==
    askSettled([c EXCEPT !.timer = FALSE,
                         !.proc = IF @ = "running" THEN "killed" ELSE @], <<>>)

(***************************************************************************)
(* SessionManager: sessions, PtyHandlers and events                        *)
(***************************************************************************)
\* session.pty = null
NoPty == 0

\* path.basename(this.cwd), and the names renameSession is called with: a
\* session keeps one name here, as nothing else depends on it
CwdName == "workspace"
SessionNames == {CwdName}

\* the session object createSession builds.  listed: it is in this.sessions;
\* pty: the index in ptys of its PtyHandler, NoPty for null.  A session
\* deleted from the map stays an object the callbacks of its PtyHandlers,
\* its detector's timer and a running _captureFirstInput still hold.
NewSession ==
    [ listed             |-> TRUE,
      name               |-> CwdName,
      status             |-> "idle",
      summary            |-> <<>>,
      originalPrompt     |-> <<>>,
      archived           |-> FALSE,
      pty                |-> NoPty,
      statusDetector     |-> NewDetector,
      firstInputCaptured |-> FALSE,
      inputBuffer        |-> <<>>,
      captures           |-> 0 ]    \* the calls of _captureFirstInput so far

\* a PtyHandler after spawn().  session: the session its onData and onExit
\* close over; pty: this.pty is not null; process: the state of the
\* operating system's process, "running", "killed" (signalled by kill(),
\* its exit not yet reported) or "exited" (onExit has run)
SpawnedPty(id) ==
    [ session |-> id,
      pty     |-> TRUE,
      process |-> "running",
      buffer  |-> <<>> ]

\* the events the manager emits
StatusEvent(id, status, was) ==
    [type |-> "status", sessionId |-> id, status |-> status, was |-> was, data |-> <<>>]
OutputEvent(id, data) ==
    [type |-> "output", sessionId |-> id, status |-> "", was |-> "", data |-> data]
SummaryEvent(id, summary) ==
    [type |-> "summary", sessionId |-> id, status |-> "", was |-> "", data |-> summary]
UpdateEvent ==
    [type |-> "update", sessionId |-> 0, status |-> "", was |-> "", data |-> <<>>]

(***************************************************************************)
(* UsageTracker: the verified tier                                         *)
(***************************************************************************)
\* accurateCacheTTL, and the timeout of fetchClaudeUsage
accurateCacheTTL == 240000
FetchTimeoutMs == 15000

\* data.session.percent = null
NoPercent == -1

\* what fetchClaudeUsage resolves with.  null: null (the probe failed, timed
\* out or printed no JSON); session: the object has a session; percent:
\* session.percent, NoPercent for null
NullData == [null |-> TRUE, session |-> FALSE, percent |-> NoPercent]
UsageData(percent) == [null |-> FALSE, session |-> TRUE, percent |-> percent]
NoSessionData == [null |-> FALSE, session |-> FALSE, percent |-> NoPercent]

\* the results a probe can have, and those the tracker does not store
FetchResults == {NullData, NoSessionData, UsageData(NoPercent), UsageData(40), UsageData(70)}
hasSessionPercent(data) == ~data.null /\ data.session /\ data.percent # NoPercent

\* the tracker after its constructor.  sinceCacheTime: Date.now() less
\* accurateCacheTime; inFlight: the fetchClaudeUsage promises not yet settled;
\* sinceCall: Date.now() less the now of the call that awaits the fetch;
\* probes: the probe processes spawned so far; last: the last call or event
\* and the value it returned
NewUsageTracker ==
    [ accurateCache   |-> NullData,
      sinceCacheTime  |-> accurateCacheTTL,
      fetchInProgress |-> FALSE,
      inFlight        |-> 0,
      sinceCall       |-> 0,
      probes          |-> 0,
      last            |-> [call |-> "new", data |-> NullData, returned |-> NullData] ]

\* getAccurateUsage that starts a fetch whether or not one is in progress
getAccurateUsageNoFlag(u) ==
    IF ~u.accurateCache.null /\ u.sinceCacheTime < accurateCacheTTL
    THEN [u EXCEPT !.last = [call |-> "fresh", data |-> NullData, returned |-> u.accurateCache]]
    ELSE [u EXCEPT !.fetchInProgress = TRUE,
                   !.inFlight = @ + 1,
                   !.sinceCall = 0,
                   !.probes = @ + 1,
                   !.last = [call |-> "fetching", data |-> NullData, returned |-> NullData]]

\* getAccurateUsage up to the point where it returns or awaits the fetch
getAccurateUsage(u) ==
    IF ~u.accurateCache.null /\ u.sinceCacheTime < accurateCacheTTL
    THEN [u EXCEPT !.last = [call |-> "fresh", data |-> NullData, returned |-> u.accurateCache]]
    ELSE IF u.fetchInProgress
    THEN [u EXCEPT !.last = [call |-> "inProgress", data |-> NullData, returned |-> u.accurateCache]]
    ELSE [u EXCEPT !.fetchInProgress = TRUE,
                   !.inFlight = @ + 1,
                   !.sinceCall = 0,
                   !.probes = @ + 1,
                   !.last = [call |-> "fetching", data |-> NullData, returned |-> NullData]]

\* the rest of getAccurateUsage that stores whatever the fetch resolved with
fetchSettledStoresAll(u, data) ==
    LET cache == IF ~data.null THEN data ELSE u.accurateCache
    IN  [u EXCEPT !.accurateCache = cache,
                  !.sinceCacheTime = IF ~data.null THEN u.sinceCall ELSE @,
                  !.fetchInProgress = FALSE,
                  !.inFlight = @ - 1,
                  !.last = [call |-> "settled", data |-> data, returned |-> cache]]

\* the rest of getAccurateUsage, once fetchClaudeUsage resolved with data
fetchSettled(u, data) ==
    LET stores == hasSessionPercent(data)
        cache == IF stores THEN data ELSE u.accurateCache
    IN  [u EXCEPT !.accurateCache = cache,
                  !.sinceCacheTime = IF stores THEN u.sinceCall ELSE @,
                  !.fetchInProgress = FALSE,
                  !.inFlight = @ - 1,
                  !.last = [call |-> "settled", data |-> data, returned |-> cache]]

\* the timeout of fetchClaudeUsage is due
fetchTimedOut(u) == u.inFlight > 0 /\ u.sinceCall >= FetchTimeoutMs

\* the timer of fetchClaudeUsage that kills the probe and resolves nothing
fetchTimeoutKillOnly(u) == u

\* the timer of fetchClaudeUsage fires: proc.kill() and resolve(null), then
\* the rest of getAccurateUsage with its finally
fetchTimeout(u) == [fetchSettled(u, NullData) EXCEPT !.last.call = "timeout"]

(***************************************************************************)
(* ContextTracker, for one cwd                                             *)
(***************************************************************************)
THRESHOLDS == <<0, 20, 40, 60, 80, 95>>
contextAccurateCacheTTL == 60000

\* no percentage: a null estimate, a failed fetch, a call that returned null
NoPct == -1
\* cached?.lastThreshold ?? -1
NoThreshold == -1

\* the estimates _getEstimateFromJsonl can give, and the percentages /context
\* can print
Estimates == {10, 15, 22}
AccuratePcts == {12, 45}

RECURSIVE bucketFrom(_, _)
bucketFrom(pct, i) ==
    IF i = 0 THEN 0
    ELSE IF pct >= THRESHOLDS[i] THEN THRESHOLDS[i]
    ELSE bucketFrom(pct, i - 1)

getThresholdBucket(pct) == bucketFrom(pct, Len(THRESHOLDS))

\* cache.get(cwd): undefined, or an entry.  age: Date.now() less timestamp
NoEntry == [present |-> FALSE, pct |-> NoPct, accurate |-> FALSE, age |-> 0,
            lastThreshold |-> NoThreshold]
Entry(pct, accurate, lastThreshold) ==
    [present |-> TRUE, pct |-> pct, accurate |-> accurate, age |-> 0,
     lastThreshold |-> lastThreshold]

\* the tracker after its constructor.  estimating: the calls awaiting their
\* estimate, each with the cached entry it read; fetches: the unsettled
\* promises of _doAccurateContextFetch, one probe process each, with the calls
\* awaiting each in the order they will resume; pending: pending.has(cwd);
\* calls, probes: the calls made and the probe processes spawned so far;
\* observed: the estimates the calls saw, in order, with whether the call
\* spawned a probe and whether it ran with no other call under way (alone);
\* invalidated: invalidate(cwd) was called; last: the last call or event with
\* the result of the fetch and the values returned
NewContextTracker ==
    [ cache       |-> NoEntry,
      estimating  |-> <<>>,
      fetches     |-> <<>>,
      pending     |-> FALSE,
      calls       |-> 0,
      probes      |-> 0,
      observed    |-> <<>>,
      invalidated |-> FALSE,
      last        |-> [event |-> "new", result |-> NoPct, returned |-> <<>>] ]

inFlightCalls(c) == c.estimating # <<>> \/ c.fetches # <<>>

\* getContextForCwd up to its first await
getContextForCwd(c) ==
    LET cached == c.cache
    IN  IF cached.present /\ cached.accurate /\ cached.age < contextAccurateCacheTTL
        THEN [c EXCEPT !.calls = @ + 1,
                       !.last = [event |-> "fresh", result |-> NoPct,
                                 returned |-> <<cached.pct>>]]
        ELSE [c EXCEPT !.calls = @ + 1,
                       !.estimating = Append(@, [cached |-> cached,
                                                 alone |-> ~inFlightCalls(c),
                                                 estimate |-> NoPct]),
                       !.last = [event |-> "estimating", result |-> NoPct,
                                 returned |-> <<>>]]

\* _getAccurateContext that never looks at pending
getAccurateContextNoDedupe(c, w) ==
    [c EXCEPT !.fetches = Append(@, <<w>>), !.pending = TRUE, !.probes = @ + 1]

\* _getAccurateContext up to its await, for the call w
getAccurateContext(c, w) ==
    IF c.pending
    THEN [c EXCEPT !.fetches[Len(c.fetches)] = Append(@, w)]
    ELSE [c EXCEPT !.fetches = Append(@, <<w>>), !.pending = TRUE, !.probes = @ + 1]

\* the end of getContextForCwd: the estimate, or the stale accurate data
useEstimate(cache, w) ==
    LET result == IF w.cached.present /\ w.cached.accurate THEN w.cached.pct ELSE w.estimate
    IN  [ cache |-> Entry(result, FALSE,
                          IF w.cached.present THEN w.cached.lastThreshold
                          ELSE getThresholdBucket(w.estimate)),
          returned |-> result ]

\* does the call that read cached and sees estimate fetch accurate data
crossedThreshold(cached, estimate) ==
    LET lastThreshold == IF cached.present THEN cached.lastThreshold ELSE NoThreshold
    IN  getThresholdBucket(estimate) # lastThreshold

\* getContextForCwd from the estimate to its next await or its return, for
\* the i-th call awaiting an estimate
estimateResolved(c, i, estimate) ==
    LET w == [c.estimating[i] EXCEPT !.estimate = estimate]
        rest == [c EXCEPT !.estimating = SubSeq(@, 1, i - 1) \o SubSeq(@, i + 1, Len(@))]
        fetching == getAccurateContext(rest, w)
        direct == useEstimate(rest.cache, w)
    IN  IF estimate = NoPct \/ crossedThreshold(w.cached, estimate)
        THEN [fetching EXCEPT
                !.observed = Append(@, [pct |-> estimate, alone |-> w.alone,
                                        spawned |-> fetching.probes > c.probes]),
                !.last = [event |-> "fetching", result |-> NoPct, returned |-> <<>>]]
        ELSE [rest EXCEPT
                !.cache = direct.cache,
                !.observed = Append(@, [pct |-> estimate, alone |-> w.alone,
                                        spawned |-> FALSE]),
                !.last = [event |-> "estimate", result |-> NoPct,
                          returned |-> <<direct.returned>>]]

\* the calls awaiting one fetch resume in order, each from its own await
RECURSIVE resume(_, _, _)
resume(cache, waiters, accurate) ==
    IF waiters = <<>> THEN [cache |-> cache, returned |-> <<>>]
    ELSE LET w == Head(waiters)
             one == IF accurate # NoPct
                    THEN [ cache |-> Entry(accurate, TRUE,
                                           IF w.estimate = NoPct
                                           THEN getThresholdBucket(accurate)
                                           ELSE getThresholdBucket(w.estimate)),
                           returned |-> accurate ]
                    ELSE IF w.estimate = NoPct
                    THEN [cache |-> cache, returned |-> NoPct]
                    ELSE useEstimate(cache, w)
             more == resume(one.cache, Tail(waiters), accurate)
         IN  [cache |-> more.cache, returned |-> <<one.returned>> \o more.returned]

\* the i-th fetch resolves with accurate, NoPct for null
fetchResolved(c, i, accurate) ==
    LET r == resume(c.cache, c.fetches[i], accurate)
    IN  [c EXCEPT !.cache = r.cache,
                  !.fetches = SubSeq(@, 1, i - 1) \o SubSeq(@, i + 1, Len(@)),
                  !.pending = FALSE,
                  !.last = [event |-> "settled", result |-> accurate,
                            returned |-> r.returned]]

invalidate(c) ==
    [c EXCEPT !.cache = NoEntry,
              !.invalidated = TRUE,
              !.last = [event |-> "invalidate", result |-> NoPct, returned |-> <<>>]]

(***************************************************************************)
(* State                                                                   *)
(***************************************************************************)
VARIABLES
    det,         \* a StatusDetector on its own
    fired,       \* what the last call passed to onStatusChange, and the call that did
    outputs,     \* the number of output chunks delivered so far
    sessions,    \* the session objects, by id, in the order of creation
    ptys,        \* the PtyHandlers, in the order of creation
    summarizing, \* the ids of the sessions whose _captureFirstInput awaits summarize
    emitted,     \* the events the last step emitted, in order
    thrown,      \* the last call threw an exception to its caller
    tickInterval, \* the interval timer of _tick is set
    usage,       \* a UsageTracker, its fetch under way and the last call on it
    context,     \* a ContextTracker for one cwd, its calls under way and their history
    handler,     \* a PtyHandler fed with chunks of any size, by the length of its buffer
    capture      \* the first-input capture of one session and its summarize call

detVars == <<det, fired>>

smVars == <<sessions, ptys, summarizing, emitted, thrown, tickInterval>>

trackerVars == <<usage, context>>

unitVars == <<handler, capture>>

vars == <<det, fired, outputs, sessions, ptys, summarizing, emitted, thrown, tickInterval,
          usage, context, handler, capture>>

(***************************************************************************)
(* A StatusDetector on its own, driven by every sequence of calls          *)
(***************************************************************************)
DetInit ==
    /\ det = [NewDetector EXCEPT !.onStatusChange = TRUE]
    /\ fired = <<>>
    /\ outputs = 0
    /\ sessions = <<>>
    /\ ptys = <<>>
    /\ summarizing = {}
    /\ emitted = <<>>
    /\ thrown = FALSE
    /\ tickInterval = TRUE
    /\ usage = NewUsageTracker
    /\ context = NewContextTracker
    /\ handler = NewPtyHandler("pty-handler")
    /\ capture = NewCapture(<<>>)

DetApply(r, call) ==
    /\ det' = r.det
    /\ fired' = IF r.fired = <<>> THEN <<>> ELSE <<[by |-> call, status |-> r.fired[1]]>>
    /\ UNCHANGED <<smVars, trackerVars, unitVars>>

DetOutput ==
    /\ outputs < MaxOutputs
    /\ \E data \in OutputChunks : DetApply(onOutput(det, data), "onOutput")
    /\ outputs' = outputs + 1

DetInput ==
    /\ \E data \in InputChunks :
          /\ onInput(det, data).det.draftLength <= MaxDraft
          /\ DetApply(onInput(det, data), "onInput")
    /\ UNCHANGED outputs

DetTick ==
    /\ DetApply(tick(det), "tick")
    /\ UNCHANGED outputs

DetResize ==
    /\ DetApply(onResize(det), "onResize")
    /\ UNCHANGED outputs

DetTimeout ==
    /\ timerDue(det)
    /\ DetApply(workingTimeout(det), "timeout")
    /\ UNCHANGED outputs

DetElapse ==
    /\ ~timerDue(det)
    /\ DetApply(Silent(elapse(det)), "elapse")
    /\ UNCHANGED outputs

DetNext ==
    \/ DetOutput
    \/ DetInput
    \/ DetTick
    \/ DetResize
    \/ DetTimeout
    \/ DetElapse

DetSpec == DetInit /\ [][DetNext]_vars

(***************************************************************************)
(* SessionManager                                                          *)
(***************************************************************************)
\* the chunks the processes write and the inputs the viewers send
SessionOutputs == {Long25, Prompt, ContinueYN}
SessionInputs == {<<"a">>, <<CR>>}

Created == 1..Len(sessions)
Listed == {id \in Created : sessions[id].listed}

\* the session after its detector's call returned r: what onStatusChange wrote
afterDetector(session, r) ==
    [session EXCEPT !.statusDetector = r.det,
                    !.status = IF r.fired # <<>> THEN r.fired[1] ELSE @]

\* the status events onStatusChange emitted during a detector call
statusEvents(id, session, r) ==
    IF r.fired # <<>> THEN <<StatusEvent(id, r.fired[1], session.status)>> ELSE <<>>

\* _spawnPty that stores a status outside the five the sessions may have
spawnPtyRunning(ss, ps, id, spawns) ==
    IF spawns
    THEN [ sessions |-> [ss EXCEPT ![id].pty = Len(ps) + 1,
                                   ![id].status = "running",
                                   ![id].statusDetector.onStatusChange = TRUE],
           ptys     |-> Append(ps, SpawnedPty(id)),
           thrown   |-> FALSE ]
    ELSE [ sessions |-> [ss EXCEPT ![id].statusDetector.onStatusChange = TRUE],
           ptys     |-> ps,
           thrown   |-> TRUE ]

\* _spawnPty(session) on the sessions ss and PtyHandlers ps.  spawns: the
\* pty.spawn() of node-pty returned; when it throws, PtyHandler.spawn and
\* _spawnPty let the exception through, after the callbacks were registered
spawnPty(ss, ps, id, spawns) ==
    IF spawns
    THEN [ sessions |-> [ss EXCEPT ![id].pty = Len(ps) + 1,
                                   ![id].status = "working",
                                   ![id].statusDetector.onStatusChange = TRUE],
           ptys     |-> Append(ps, SpawnedPty(id)),
           thrown   |-> FALSE ]
    ELSE [ sessions |-> [ss EXCEPT ![id].statusDetector.onStatusChange = TRUE],
           ptys     |-> ps,
           thrown   |-> TRUE ]

\* SessionManager.getBuffer(id) with PtyHandler.getBuffer, on the sessions ss
\* and PtyHandlers ps
getBuffer(ss, ps, id) ==
    IF id \in DOMAIN ss /\ ss[id].listed /\ ss[id].pty # NoPty
    THEN handlerGetBuffer("pty-handler", ps[ss[id].pty].buffer)
    ELSE <<>>

\* the first-input part of sendInput that captures at every Enter
firstInputCaptureAgain(session, data) ==
    LET fullPrompt == session.inputBuffer \o data
        cleaned == cleanPrompt(fullPrompt)
    IN  IF ~(\E i \in DOMAIN data : data[i] \in {CR, LF})
        THEN [session EXCEPT !.inputBuffer = fullPrompt]
        ELSE [session EXCEPT !.inputBuffer = <<>>,
                             !.captures = @ + 1,
                             !.originalPrompt = IF cleaned # <<>> THEN cleaned ELSE @]

\* the first-input part of sendInput, with _captureFirstInput up to its
\* await: the session after it
firstInputCapture(session, data) ==
    LET fullPrompt == session.inputBuffer \o data
        cleaned == cleanPrompt(fullPrompt)
    IN  IF session.firstInputCaptured THEN session
        ELSE IF ~(\E i \in DOMAIN data : data[i] \in {CR, LF})
        THEN [session EXCEPT !.inputBuffer = fullPrompt]
        ELSE [session EXCEPT !.firstInputCaptured = TRUE,
                             !.inputBuffer = <<>>,
                             !.captures = @ + 1,
                             !.originalPrompt = IF cleaned # <<>> THEN cleaned ELSE @]

\* PtyHandler.kill() on ptys[p]
killPty(ps, p) ==
    IF ps[p].pty
    THEN [ps EXCEPT ![p].pty = FALSE,
                    ![p].process = IF @ = "running" THEN "killed" ELSE @]
    ELSE ps

SMInit ==
    /\ sessions = <<>>
    /\ ptys = <<>>
    /\ summarizing = {}
    /\ emitted = <<>>
    /\ thrown = FALSE
    /\ tickInterval = TRUE
    /\ usage = NewUsageTracker
    /\ context = NewContextTracker
    /\ handler = NewPtyHandler("pty-handler")
    /\ capture = NewCapture(<<>>)
    /\ outputs = 0
    /\ det = NewDetector
    /\ fired = <<>>

\* an operation called with an id that is not in the map, which emits an
\* update all the same
noSuchSessionUpdates(sessionId) ==
    /\ sessionId \notin Listed
    /\ emitted' = <<UpdateEvent>>
    /\ thrown' = FALSE
    /\ UNCHANGED <<sessions, ptys, summarizing, outputs, tickInterval, detVars, trackerVars, unitVars>>

\* an operation called with an id that is not in the map: this.sessions.get
\* gives undefined and the operation returns
noSuchSession(sessionId) ==
    /\ sessionId \notin Listed
    /\ emitted' = <<>>
    /\ thrown' = FALSE
    /\ UNCHANGED <<sessions, ptys, summarizing, outputs, tickInterval, detVars, trackerVars, unitVars>>

createSession ==
    /\ Len(sessions) < MaxSessions
    /\ Len(ptys) < MaxPtys
    /\ \E spawns \in BOOLEAN :
          LET id == Len(sessions) + 1
              r == spawnPty(Append(sessions, NewSession), ptys, id, spawns)
          IN  /\ sessions' = r.sessions
              /\ ptys' = r.ptys
              /\ thrown' = r.thrown
              /\ emitted' = IF r.thrown THEN <<>> ELSE <<UpdateEvent>>
    /\ UNCHANGED <<summarizing, outputs, tickInterval, detVars, trackerVars, unitVars>>

sendInput(sessionId, data) ==
    \/ noSuchSession(sessionId)
    \/ /\ sessionId \in Listed
       /\ sessions[sessionId].pty = NoPty => Len(ptys) < MaxPtys
       /\ \E spawns \in BOOLEAN :
          LET spawned == IF sessions[sessionId].pty = NoPty
                         THEN spawnPty(sessions, ptys, sessionId, spawns)
                         ELSE [sessions |-> sessions, ptys |-> ptys, thrown |-> FALSE]
              s1 == spawned.sessions[sessionId]
              s2 == firstInputCapture(s1, data)
              r == onInput(s2.statusDetector, data)
          IN  /\ sessions[sessionId].pty # NoPty => spawns
              /\ r.det.draftLength <= MaxDraft
              /\ thrown' = spawned.thrown
              /\ ptys' = spawned.ptys
              /\ IF spawned.thrown
                 THEN /\ sessions' = spawned.sessions
                      /\ summarizing' = summarizing
                      /\ emitted' = <<>>
                 ELSE /\ sessions' = [spawned.sessions EXCEPT ![sessionId] = afterDetector(s2, r)]
                      /\ summarizing' = IF s2.captures > s1.captures
                                           /\ cleanPrompt(s1.inputBuffer \o data) # <<>>
                                        THEN summarizing \cup {sessionId}
                                        ELSE summarizing
                      /\ emitted' = statusEvents(sessionId, s2, r)
       /\ UNCHANGED <<outputs, tickInterval, detVars, trackerVars, unitVars>>

\* the rest of _captureFirstInput, once summarize has settled
captureFirstInputDone(sessionId) ==
    /\ sessionId \in summarizing
    /\ \E reply \in {<<>>, Short8} :
          LET summary == summarize(sessions[sessionId].originalPrompt, reply)
          IN  /\ sessions' = [sessions EXCEPT ![sessionId].summary = summary]
              /\ emitted' = <<SummaryEvent(sessionId, summary), UpdateEvent>>
    /\ summarizing' = summarizing \ {sessionId}
    /\ thrown' = FALSE
    /\ UNCHANGED <<ptys, outputs, tickInterval, detVars, trackerVars, unitVars>>

\* archiveSession(sessionId) on the sessions ss and PtyHandlers ps: the sessions
\* and PtyHandlers after it, the events it emitted and the kill() calls it made
archive(ss, ps, sessionId) ==
    LET p == ss[sessionId].pty
    IN  [ sessions |-> [ss EXCEPT ![sessionId].pty = NoPty,
                                  ![sessionId].archived = TRUE,
                                  ![sessionId].status = "idle"],
          ptys     |-> IF p # NoPty THEN killPty(ps, p) ELSE ps,
          emitted  |-> <<UpdateEvent>>,
          kills    |-> IF p # NoPty THEN 1 ELSE 0 ]

archiveSession(sessionId) ==
    \/ noSuchSession(sessionId)
    \/ /\ sessionId \in Listed
       /\ sessions' = archive(sessions, ptys, sessionId).sessions
       /\ ptys' = archive(sessions, ptys, sessionId).ptys
       /\ emitted' = archive(sessions, ptys, sessionId).emitted
       /\ thrown' = FALSE
       /\ UNCHANGED <<summarizing, outputs, tickInterval, detVars, trackerVars, unitVars>>

\* unarchiveSession that spawns a process for the session at once
unarchiveSessionRespawns(sessionId) ==
    /\ sessionId \in Listed
    /\ Len(ptys) < MaxPtys
    /\ LET r == spawnPty([sessions EXCEPT ![sessionId].archived = FALSE], ptys, sessionId, TRUE)
       IN  /\ sessions' = r.sessions
           /\ ptys' = r.ptys
    /\ emitted' = <<UpdateEvent>>
    /\ thrown' = FALSE
    /\ UNCHANGED <<summarizing, outputs, tickInterval, detVars, trackerVars, unitVars>>

unarchiveSession(sessionId) ==
    \/ noSuchSession(sessionId)
    \/ /\ sessionId \in Listed
       /\ sessions' = [sessions EXCEPT ![sessionId].archived = FALSE]
       /\ emitted' = <<UpdateEvent>>
       /\ thrown' = FALSE
       /\ UNCHANGED <<ptys, summarizing, outputs, tickInterval, detVars, trackerVars, unitVars>>

\* PtyHandler.resize stores cols and rows and resizes the process; neither
\* is part of the state kept here
resizeSession(sessionId) ==
    \/ noSuchSession(sessionId)
    \/ /\ sessionId \in Listed
       /\ emitted' = <<>>
       /\ thrown' = FALSE
       /\ UNCHANGED <<sessions, ptys, summarizing, outputs, tickInterval, detVars, trackerVars, unitVars>>

renameSession(sessionId, name) ==
    \/ noSuchSession(sessionId)
    \/ /\ sessionId \in Listed
       /\ sessions' = [sessions EXCEPT ![sessionId].name = name]
       /\ emitted' = <<UpdateEvent>>
       /\ thrown' = FALSE
       /\ UNCHANGED <<ptys, summarizing, outputs, tickInterval, detVars, trackerVars, unitVars>>

deleteSession(sessionId) ==
    \/ noSuchSession(sessionId)
    \/ /\ sessionId \in Listed
       /\ LET p == sessions[sessionId].pty
          IN  ptys' = IF p # NoPty THEN killPty(ptys, p) ELSE ptys
       /\ sessions' = [sessions EXCEPT ![sessionId].listed = FALSE]
       /\ emitted' = <<UpdateEvent>>
       /\ thrown' = FALSE
       /\ UNCHANGED <<summarizing, outputs, tickInterval, detVars, trackerVars, unitVars>>

\* the process of ptys[p] writes data: the onData handlers of PtyHandler.spawn
\* and of _spawnPty.  A killed process may still have data under way.
ptyData(p, data) ==
    /\ p \in 1..Len(ptys)
    /\ ptys[p].process \in {"running", "killed"}
    /\ outputs < MaxSessionOutputs
    /\ LET id == ptys[p].session
           r == onOutput(sessions[id].statusDetector, data)
       IN  /\ sessions' = [sessions EXCEPT ![id] = afterDetector(@, r)]
           /\ emitted' = statusEvents(id, sessions[id], r) \o <<OutputEvent(id, data)>>
    /\ ptys' = [ptys EXCEPT ![p].buffer = bufferAfter(@, data)]
    /\ outputs' = outputs + 1
    /\ thrown' = FALSE
    /\ UNCHANGED <<summarizing, tickInterval, detVars, trackerVars, unitVars>>

\* the process of ptys[p] ends, by itself or after kill(): the onExit
\* handlers of PtyHandler.spawn and of _spawnPty
ptyExit(p) ==
    /\ p \in 1..Len(ptys)
    /\ ptys[p].process \in {"running", "killed"}
    /\ LET id == ptys[p].session
       IN  /\ sessions' = [sessions EXCEPT ![id].pty = NoPty, ![id].status = "idle"]
           /\ emitted' = <<StatusEvent(id, "idle", sessions[id].status), UpdateEvent>>
    /\ ptys' = [ptys EXCEPT ![p].process = "exited"]
    /\ thrown' = FALSE
    /\ UNCHANGED <<summarizing, outputs, tickInterval, detVars, trackerVars, unitVars>>

\* kill() on the PtyHandler of each session of ids that has one
RECURSIVE killEach(_, _, _)
killEach(ss, ps, ids) ==
    IF ids = {} THEN ps
    ELSE LET id == CHOOSE i \in ids : \A j \in ids : i <= j
         IN  killEach(ss, IF ss[id].pty # NoPty THEN killPty(ps, ss[id].pty) ELSE ps, ids \ {id})

killAll ==
    /\ ptys' = killEach(sessions, ptys, Listed)
    /\ tickInterval' = FALSE
    /\ emitted' = <<>>
    /\ thrown' = FALSE
    /\ UNCHANGED <<sessions, summarizing, outputs, detVars, trackerVars, unitVars>>

\* _tick on the sessions ids (in the order of the map) of ss: the sessions
\* after it and the events it emitted
RECURSIVE tickAll(_, _, _)
tickAll(ss, ids, events) ==
    IF ids = {} THEN [sessions |-> ss, emitted |-> events]
    ELSE LET id == CHOOSE i \in ids : \A j \in ids : i <= j
             r == tick(ss[id].statusDetector)
         IN  tickAll([ss EXCEPT ![id] = afterDetector(@, r)],
                     ids \ {id},
                     events \o statusEvents(id, ss[id], r))

smTick ==
    /\ tickInterval
    /\ sessions' = tickAll(sessions, Listed, <<>>).sessions
    /\ emitted' = tickAll(sessions, Listed, <<>>).emitted
    /\ thrown' = FALSE
    /\ UNCHANGED <<ptys, summarizing, outputs, tickInterval, detVars, trackerVars, unitVars>>

\* the debounce timer of the session's detector fires
smTimeout(sessionId) ==
    /\ sessionId \in Created
    /\ timerDue(sessions[sessionId].statusDetector)
    /\ LET r == workingTimeout(sessions[sessionId].statusDetector)
       IN  /\ sessions' = [sessions EXCEPT ![sessionId] = afterDetector(@, r)]
           /\ emitted' = statusEvents(sessionId, sessions[sessionId], r)
    /\ thrown' = FALSE
    /\ UNCHANGED <<ptys, summarizing, outputs, tickInterval, detVars, trackerVars, unitVars>>

\* a pause with no call and no event: until the next timer is due or past
\* every threshold of the detectors
smElapse ==
    /\ \A id \in Created : ~timerDue(sessions[id].statusDetector)
    /\ sessions' = [id \in Created |-> [sessions[id] EXCEPT !.statusDetector = settle(@)]]
    /\ emitted' = <<>>
    /\ thrown' = FALSE
    /\ UNCHANGED <<ptys, summarizing, outputs, tickInterval, detVars, trackerVars, unitVars>>

SendInput == \E id \in 1..MaxSessions : \E data \in SessionInputs : sendInput(id, data)
CaptureFirstInputDone == \E id \in 1..MaxSessions : captureFirstInputDone(id)
ArchiveSession == \E id \in 1..MaxSessions : archiveSession(id)
UnarchiveSession == \E id \in 1..MaxSessions : unarchiveSession(id)
RenameSession == \E id \in 1..MaxSessions : \E name \in SessionNames : renameSession(id, name)
ResizeSession == \E id \in 1..MaxSessions : resizeSession(id)
DeleteSession == \E id \in 1..MaxSessions : deleteSession(id)
PtyData == \E p \in 1..MaxPtys : \E data \in SessionOutputs : ptyData(p, data)
PtyExit == \E p \in 1..MaxPtys : ptyExit(p)
Timeout == \E id \in 1..MaxSessions : smTimeout(id)

SMNext ==
    \/ createSession
    \/ SendInput
    \/ CaptureFirstInputDone
    \/ ArchiveSession
    \/ UnarchiveSession
    \/ RenameSession
    \/ ResizeSession
    \/ DeleteSession
    \/ PtyData
    \/ PtyExit
    \/ killAll
    \/ smTick
    \/ Timeout
    \/ smElapse

SMSpec == SMInit /\ [][SMNext]_vars

\* the scheduling of the event loop: the interval timer of _tick keeps
\* firing, timers that are due fire, and time passes
SMFairSpec ==
    /\ SMSpec
    /\ WF_vars(smTick)
    /\ WF_vars(Timeout)
    /\ WF_vars(smElapse)

(***************************************************************************)
(* A UsageTracker on its own, with every interleaving of calls, settling   *)
(* fetches and passing time                                                *)
(***************************************************************************)
UsageInit ==
    /\ usage = NewUsageTracker
    /\ context = NewContextTracker
    /\ handler = NewPtyHandler("pty-handler")
    /\ capture = NewCapture(<<>>)
    /\ det = NewDetector
    /\ fired = <<>>
    /\ outputs = 0
    /\ sessions = <<>>
    /\ ptys = <<>>
    /\ summarizing = {}
    /\ emitted = <<>>
    /\ thrown = FALSE
    /\ tickInterval = TRUE

UsageCall ==
    /\ getAccurateUsage(usage).probes <= MaxUsageProbes
    /\ usage' = getAccurateUsage(usage)
    /\ UNCHANGED <<detVars, outputs, smVars, context, unitVars>>

\* fetchClaudeUsage resolves: with any result before its timeout, with null
\* at the timeout
UsageFetchSettles(data) ==
    /\ usage.inFlight > 0
    /\ fetchTimedOut(usage) => data = NullData
    /\ usage' = fetchSettled(usage, data)
    /\ UNCHANGED <<detVars, outputs, smVars, context, unitVars>>

\* UsageStep passes
UsageElapse ==
    /\ ~fetchTimedOut(usage)
    /\ usage' = [usage EXCEPT
                    !.sinceCacheTime = IF @ + UsageStep > accurateCacheTTL
                                       THEN accurateCacheTTL ELSE @ + UsageStep,
                    !.sinceCall = IF usage.inFlight > 0 THEN @ + UsageStep ELSE @,
                    !.last = [call |-> "elapse", data |-> NullData, returned |-> NullData]]
    /\ UNCHANGED <<detVars, outputs, smVars, context, unitVars>>

UsageSettles == \E data \in FetchResults : UsageFetchSettles(data)

\* the 15 s timer of fetchClaudeUsage fires while the probe still runs
UsageTimeout ==
    /\ fetchTimedOut(usage)
    /\ usage' = fetchTimeout(usage)
    /\ UNCHANGED <<detVars, outputs, smVars, context, unitVars>>

UsageNext ==
    \/ UsageCall
    \/ UsageSettles
    \/ UsageTimeout
    \/ UsageElapse

UsageSpec == UsageInit /\ [][UsageNext]_vars

\* time passes and a due timer runs its callback; the probe itself may never
\* close
UsageFairSpec ==
    /\ UsageSpec
    /\ WF_vars(UsageElapse)
    /\ WF_vars(UsageTimeout)

(***************************************************************************)
(* A ContextTracker on its own.  A call, with its fetch, lasts less than   *)
(* ContextStep, so time passes between calls; a fetch that runs into its   *)
(* timeout is one that resolves with null                                  *)
(***************************************************************************)
ContextInit == UsageInit

ContextCall ==
    /\ context.calls < MaxContextCalls
    /\ context' = getContextForCwd(context)
    /\ UNCHANGED <<detVars, outputs, smVars, usage, unitVars>>

ContextEstimate ==
    \E i \in 1..Len(context.estimating) : \E estimate \in Estimates \cup {NoPct} :
        /\ context' = estimateResolved(context, i, estimate)
        /\ UNCHANGED <<detVars, outputs, smVars, usage, unitVars>>

ContextFetchSettles ==
    \E i \in 1..Len(context.fetches) : \E accurate \in AccuratePcts \cup {NoPct} :
        /\ context' = fetchResolved(context, i, accurate)
        /\ UNCHANGED <<detVars, outputs, smVars, usage, unitVars>>

ContextInvalidate ==
    /\ context' = invalidate(context)
    /\ UNCHANGED <<detVars, outputs, smVars, usage, unitVars>>

ContextElapse ==
    /\ ~inFlightCalls(context)
    /\ context.cache.present
    /\ context.cache.age < contextAccurateCacheTTL
    /\ context' = [context EXCEPT
                      !.cache.age = IF @ + ContextStep > contextAccurateCacheTTL
                                    THEN contextAccurateCacheTTL ELSE @ + ContextStep,
                      !.last = [event |-> "elapse", result |-> NoPct, returned |-> <<>>]]
    /\ UNCHANGED <<detVars, outputs, smVars, usage, unitVars>>

ContextNext ==
    \/ ContextCall
    \/ ContextEstimate
    \/ ContextFetchSettles
    \/ ContextInvalidate
    \/ ContextElapse

ContextSpec == ContextInit /\ [][ContextNext]_vars

(***************************************************************************)
(* A PtyHandler on its own, of either copy, fed with chunks of every size  *)
(***************************************************************************)
BufferInit ==
    /\ handler \in {NewPtyHandler("pty-handler"), NewPtyHandler("summarizer")}
    /\ capture = NewCapture(<<>>)
    /\ usage = NewUsageTracker
    /\ context = NewContextTracker
    /\ det = NewDetector
    /\ fired = <<>>
    /\ outputs = 0
    /\ sessions = <<>>
    /\ ptys = <<>>
    /\ summarizing = {}
    /\ emitted = <<>>
    /\ thrown = FALSE
    /\ tickInterval = TRUE

\* the process writes n characters.  The newline and the orphaned sequence
\* are properties of the text, looked at only when the handler cuts
BufferData ==
    /\ handler.chunks < MaxChunks
    /\ \E n \in ChunkSizes : \E newline \in NewlineOffsets : \E orphan \in OrphanLengths :
          LET cuts == handler.length + n > BufferCap
          IN  /\ ~(cuts /\ handler.copy = "summarizer") => (newline = NoNewline /\ orphan = 0)
              /\ handler' = [handler EXCEPT
                     !.length = bufferLength(handler.copy, handler.length, n, newline, orphan),
                     !.chunks = @ + 1,
                     !.last = n,
                     !.truncated = cuts]
    /\ UNCHANGED <<detVars, outputs, smVars, trackerVars, capture>>

BufferNext == BufferData

BufferSpec == BufferInit /\ [][BufferNext]_vars

(***************************************************************************)
(* The first-input capture of one session with its Summarizer, for every   *)
(* first line, every behaviour of the external process and passing time    *)
(***************************************************************************)
SumInit ==
    /\ capture \in {NewCapture(input) : input \in FirstLines}
    /\ handler = NewPtyHandler("pty-handler")
    /\ usage = NewUsageTracker
    /\ context = NewContextTracker
    /\ det = NewDetector
    /\ fired = <<>>
    /\ outputs = 0
    /\ sessions = <<>>
    /\ ptys = <<>>
    /\ summarizing = {}
    /\ emitted = <<>>
    /\ thrown = FALSE
    /\ tickInterval = TRUE

SumSendInput ==
    /\ capture.phase = "new"
    /\ capture' = captureFirstInput(capture)
    /\ UNCHANGED <<detVars, outputs, smVars, trackerVars, handler>>

\* a sendInput after the first line: firstInputCaptured is set
SumLaterInput ==
    /\ capture.phase # "new"
    /\ capture.forwarded < MaxForwarded
    /\ capture' = [capture EXCEPT !.forwarded = @ + 1]
    /\ UNCHANGED <<detVars, outputs, smVars, trackerVars, handler>>

\* the external process closes, by itself or after a kill
SumClose ==
    /\ capture.proc \in {"running", "killed"}
    /\ \E code \in {0, 1} : \E output \in AskOutputs :
          capture' = askSettled([capture EXCEPT !.proc = "closed"],
                                askClaudeClosed(code, output))
    /\ UNCHANGED <<detVars, outputs, smVars, trackerVars, handler>>

\* the spawn of the external process fails: its error event
SumError ==
    /\ capture.proc = "running"
    /\ capture.sinceSpawn = 0
    /\ capture' = askSettled([capture EXCEPT !.proc = "none"], <<>>)
    /\ UNCHANGED <<detVars, outputs, smVars, trackerVars, handler>>

SumTimeout ==
    /\ capture.timer
    /\ capture.sinceSpawn >= AskTimeoutMs
    /\ capture' = askTimeout(capture)
    /\ UNCHANGED <<detVars, outputs, smVars, trackerVars, handler>>

SumElapse ==
    /\ capture.timer
    /\ capture.sinceSpawn < AskTimeoutMs
    /\ capture' = [capture EXCEPT !.sinceSpawn = @ + SumStep]
    /\ UNCHANGED <<detVars, outputs, smVars, trackerVars, handler>>

SumNext ==
    \/ SumSendInput
    \/ SumLaterInput
    \/ SumClose
    \/ SumError
    \/ SumTimeout
    \/ SumElapse

SumSpec == SumInit /\ [][SumNext]_vars

\* timers that are due fire and time passes; nothing makes the external
\* process close
SumFairSpec ==
    /\ SumSpec
    /\ WF_vars(SumTimeout)
    /\ WF_vars(SumElapse)

(***************************************************************************)
(* Properties of the StatusDetector, under DetSpec                         *)
(***************************************************************************)
\* s ends in the characters of tail
EndsIn(s, tail) == MatchAt(s, tail, Len(s) - Len(tail) + 1)

\* outputs that end in one of the two questions
QuestionOutputs ==
    {ContinueYN, ProceedYN, Long25 \o ContinueYN, ColorOk \o ProceedYN, RedrawContinue}

\* outputs of 25 visible characters and no escape sequence
Outputs25 == {Long25, Long25Q}

\* C5: once the burst buffer matches a waiting pattern and the status is
\* waiting, nothing but a new output makes the status working: not the length
\* rule, not the working transition the debounce timer holds.
C5_WaitingPreemptsWorking ==
    [][ (/\ det.status = "waiting"
         /\ MatchesWaiting(det.outputBuffer)
         /\ outputs' = outputs)
        => det'.status # "working" ]_vars

\* C6 as stated: in every detector state with no draft, an onOutput call with
\* an output that ends in one of the two questions leaves the status waiting
\* and passes waiting to onStatusChange exactly once.
C6_QuestionAlwaysWaiting ==
    det.draftLength = 0 =>
        \A data \in QuestionOutputs :
            /\ onOutput(det, data).det.status = "waiting"
            /\ onOutput(det, data).fired = <<"waiting">>

\* C6 as amended: in every detector state with no draft and no resize
\* cooldown running, an onOutput call with an output that ends in one of the
\* two questions and holds no redraw sequence leaves the status waiting,
\* however long the burst; waiting is passed to onStatusChange exactly once
\* when the status was not waiting before, and not at all when it was.
C6_QuestionWaitingOutsideCooldown ==
    (det.draftLength = 0 /\ det.cooldownLeft = 0) =>
        \A data \in QuestionOutputs :
            ~isUiRedraw(data) =>
                LET r == onOutput(det, data)
                IN  /\ r.det.status = "waiting"
                    /\ r.fired = IF det.status = "waiting" THEN <<>> ELSE <<"waiting">>

\* an onOutput call has just ended a burst of more than BurstThreshold
\* characters with "Continue? (y/n)", and waiting was notified once
C6_Witness ==
    /\ det.lastOutput = ContinueYN
    /\ det.draftLength = 0
    /\ det.cooldownLeft = 0
    /\ Len(det.outputBuffer) > BurstThreshold
    /\ det.status = "waiting"
    /\ fired = <<[by |-> "onOutput", status |-> "waiting"]>>

\* C7 as stated: with no draft, an onOutput call with 25 visible characters
\* and no escape sequence makes the status working before it returns.
C7_Burst25AlwaysWorking ==
    det.draftLength = 0 =>
        \A data \in Outputs25 : onOutput(det, data).det.status = "working"

\* C7 as amended: with no draft and no resize cooldown running, an onOutput
\* call with 25 visible characters and no escape sequence, after which the
\* burst buffer matches no waiting pattern, makes the status working before
\* it returns.
C7_Burst25WorkingUnlessWaiting ==
    (det.draftLength = 0 /\ det.cooldownLeft = 0) =>
        \A data \in Outputs25 :
            LET r == onOutput(det, data)
            IN  ~MatchesWaiting(r.det.outputBuffer) => r.det.status = "working"

\* an onOutput call with the 25 characters has just made the status working,
\* with the debounce timer never set
C7_Witness ==
    /\ det.lastOutput = Long25
    /\ det.outputBuffer = Long25
    /\ det.draftLength = 0
    /\ det.pendingWorkingTimeout = NoTimer
    /\ det.status = "working"
    /\ fired = <<[by |-> "onOutput", status |-> "working"]>>

\* C8 as stated: status working, more than SilenceMs since the last output
\* and a rolling window that ends in "$ ": tick() makes the status idle,
\* whatever else the window holds.
C8_PromptAlwaysIdle ==
    (/\ det.status = "working"
     /\ det.sinceOutput > SilenceMs
     /\ EndsIn(det.terminalBuffer, Prompt))
    => tick(det).det.status = "idle"

\* C8 as amended: status working, more than SilenceMs since the last output
\* and a rolling window that ends in "$ " and matches no waiting pattern:
\* tick() makes the status idle.
C8_PromptIdleUnlessWaiting ==
    (/\ det.status = "working"
     /\ det.sinceOutput > SilenceMs
     /\ EndsIn(det.terminalBuffer, Prompt)
     /\ ~MatchesWaiting(det.terminalBuffer))
    => tick(det).det.status = "idle"

\* tick() has just made a silent working detector idle on a window that
\* holds more than the prompt
C8_Witness ==
    /\ fired = <<[by |-> "tick", status |-> "idle"]>>
    /\ det.status = "idle"
    /\ det.sinceOutput > SilenceMs
    /\ EndsIn(det.terminalBuffer, Prompt)
    /\ Len(det.terminalBuffer) > Len(Prompt)

\* C9: onResize() on a working detector with no draft makes it idle at once,
\* and while the cooldown runs an onOutput call changes neither the status,
\* nor the burst buffer, nor the debounce timer.
C9_ResizeIdleAndCooldown ==
    /\ (det.status = "working" /\ det.draftLength = 0)
           => /\ onResize(det).det.status = "idle"
              /\ onResize(det).det.cooldownLeft = CooldownMs
    /\ det.cooldownLeft > 0 =>
           \A data \in OutputChunks \cup Outputs25 \cup QuestionOutputs :
               LET r == onOutput(det, data)
               IN  /\ r.det.status = det.status
                   /\ r.det.outputBuffer = det.outputBuffer
                   /\ r.det.pendingWorkingTimeout = det.pendingWorkingTimeout
                   /\ r.fired = <<>>

\* an onOutput call with 25 characters has just returned inside the cooldown
\* of a resize, and the detector is idle
C9_Witness ==
    /\ det.sinceOutput = 0
    /\ det.lastOutput = Long25
    /\ det.cooldownLeft > 0
    /\ det.cooldownLeft < CooldownMs
    /\ det.outputBuffer = Long25
    /\ det.draftLength = 0
    /\ det.status = "idle"

(***************************************************************************)
(* Properties of the SessionManager, under SMSpec and SMFairSpec           *)
(***************************************************************************)
\* the processes spawned for session id that run and were not killed
LivePtys(id) == {p \in 1..Len(ptys) : ptys[p].session = id /\ ptys[p].process = "running"}

\* C1: a session never has more than one live process at a time, and the
\* live process is the one session.pty references.
C1_AtMostOneLivePty ==
    \A id \in Created :
        /\ Cardinality(LivePtys(id)) <= 1
        /\ \A p \in LivePtys(id) : sessions[id].pty = p

\* C2: a session with archived = true has no live process.
C2_ArchivedHasNoLivePty ==
    \A id \in Listed : sessions[id].archived => LivePtys(id) = {}

\* C3: among the events one output chunk makes the manager emit, no status
\* event of the session comes before the output event that carries the chunk.
C3_OutputBeforeStatus ==
    \A i, j \in DOMAIN emitted :
        (/\ i < j
         /\ emitted[j].type = "output"
         /\ emitted[i].sessionId = emitted[j].sessionId)
        => emitted[i].type # "status"

C10_NoDuplicateStatusEvents ==
    \A i \in DOMAIN emitted :
        emitted[i].type = "status" => emitted[i].status # emitted[i].was

\* C11: the status of every session, and of its detector, is one of idle,
\* working, waiting, draft and error, and a new StatusDetector is idle.
C11_StatusInEnum ==
    /\ NewDetector.status = "idle"
    /\ \A id \in Created :
           /\ sessions[id].status \in Statuses
           /\ sessions[id].statusDetector.status \in Statuses

\* a session whose detector took a question from its process and made it
\* waiting
C11_Witness ==
    \E id \in Listed :
        /\ sessions[id].status = "waiting"
        /\ sessions[id].statusDetector.status = "waiting"
        /\ sessions[id].pty # NoPty

\* C17: when the spawn fails during createSession, nothing is thrown to the
\* caller, the new session is listed with status error, and an error event
\* is emitted.
C17_SpawnFailureRecorded ==
    [][ (createSession /\ sessions'[Len(sessions')].pty = NoPty)
        => /\ ~thrown'
           /\ sessions'[Len(sessions')].listed
           /\ sessions'[Len(sessions')].status = "error"
           /\ \E i \in DOMAIN emitted' : emitted'[i].type = "error" ]_vars

\* C18: a sendInput call that returns ends with the session referencing a
\* PtyHandler that holds a process, and that process runs.
C18_InputReachesLiveProcess ==
    [][ \A id \in 1..MaxSessions : \A data \in SessionInputs :
          (id \in Listed /\ sendInput(id, data) /\ ~thrown')
          => /\ sessions'[id].pty # NoPty
             /\ ptys'[sessions'[id].pty].pty
             /\ ptys'[sessions'[id].pty].process = "running" ]_vars

\* C19: a second archiveSession call leaves the sessions and the PtyHandlers
\* as the first left them, the two calls kill at most once, and the second
\* emits no event.
C19_ArchiveIdempotent ==
    \A id \in Listed :
        LET once == archive(sessions, ptys, id)
            twice == archive(once.sessions, once.ptys, id)
        IN  /\ twice.sessions = once.sessions
            /\ twice.ptys = once.ptys
            /\ once.kills + twice.kills <= 1
            /\ twice.emitted = <<>>

\* C20: unarchiveSession changes nothing but the archived flag of the
\* session, which becomes false: no PtyHandler is made or killed, and the pty
\* reference, the status, the summary and the detector of the session stay.
C20_UnarchiveOnlyClearsFlag ==
    [][ \A id \in 1..MaxSessions :
          (id \in Listed /\ unarchiveSession(id))
          => /\ ptys' = ptys
             /\ sessions' = [sessions EXCEPT ![id].archived = FALSE]
             /\ summarizing' = summarizing
             /\ ~thrown' ]_vars

\* a session that was archived with a running process is listed again, with
\* no process: its only process was killed and no other was spawned
C20_Witness ==
    \E id \in Listed :
        /\ ~sessions[id].archived
        /\ sessions[id].pty = NoPty
        /\ sessions[id].status = "idle"
        /\ emitted = <<UpdateEvent>>
        /\ Len(ptys) = 1
        /\ ptys[1].session = id
        /\ ptys[1].process = "killed"
        /\ ~ptys[1].pty

(***************************************************************************)
(* Properties of the UsageTracker, under UsageSpec                         *)
(***************************************************************************)
\* C12: at most one fetch is in flight, and while one is in flight no call
\* of getAccurateUsage, however many are made, starts another probe
C12_SingleFlight ==
    [][ /\ usage'.inFlight <= 1
        /\ (usage.inFlight > 0 /\ UsageCall) => usage'.probes = usage.probes ]_vars

\* a call made during a fetch has returned, and one probe was started
C12_Witness ==
    /\ usage.last.call = "inProgress"
    /\ usage.inFlight = 1
    /\ usage.probes = 1

\* C13: a call made while a fetch is in flight returns the cached value, null
\* if there is none, in the same step; when the fetch resolves with null, with
\* no session or with a null percentage, the awaiting call returns the cached
\* value as it was, and accurateCache and accurateCacheTime stay as they were
C13_StaleOnFailure ==
    [][ /\ (usage.fetchInProgress /\ UsageCall) =>
               /\ usage'.last.call = "inProgress"
               /\ usage'.last.returned = usage.accurateCache
               /\ usage'.inFlight = usage.inFlight
        /\ \A data \in FetchResults :
               (UsageFetchSettles(data) /\ ~hasSessionPercent(data)) =>
                   /\ usage'.last.returned = usage.accurateCache
                   /\ usage'.accurateCache = usage.accurateCache
                   /\ usage'.sinceCacheTime = usage.sinceCacheTime ]_vars

\* a fetch resolved without a percentage while an expired value was cached
C13_Witness ==
    /\ usage.last.call = "settled"
    /\ usage.last.data = UsageData(NoPercent)
    /\ usage.last.returned = UsageData(40)
    /\ usage.accurateCache = UsageData(40)
    /\ usage.sinceCacheTime = accurateCacheTTL

(***************************************************************************)
(* Properties of the ContextTracker, under ContextSpec                     *)
(***************************************************************************)
\* C14: starting with an empty cache, three calls made one after the other
\* that see the estimates 10, 15 and 22, with no invalidate, spawn one
\* probe, in the call that sees 22
C14_OneProbeAt22 ==
    LET o == context.observed
    IN  ( /\ Len(o) = 3
          /\ <<o[1].pct, o[2].pct, o[3].pct>> = <<10, 15, 22>>
          /\ \A i \in 1..3 : o[i].alone
          /\ ~context.invalidated
          /\ ~inFlightCalls(context) )
        => /\ <<o[1].spawned, o[2].spawned, o[3].spawned>> = <<FALSE, FALSE, TRUE>>
           /\ context.probes = 1

\* C15: of two calls made one after the other with no other call under way,
\* whose estimates lie in the same bucket, the later spawns no probe, whether
\* the fetch of the earlier gave a result or null, and whether or not
\* invalidate was called in between
C15_OneProbePerBucket ==
    LET o == context.observed
    IN  \A i \in 1..(Len(o) - 1) :
            ( /\ o[i].pct # NoPct /\ o[i + 1].pct # NoPct
              /\ o[i].alone /\ o[i + 1].alone
              /\ getThresholdBucket(o[i].pct) = getThresholdBucket(o[i + 1].pct) )
            => ~o[i + 1].spawned

\* C16: at most one probe process is in flight; pending holds an entry
\* exactly while it is; the calls that awaited a fetch that gave a result all
\* return that result
C16_OneFetchInFlight ==
    /\ Len(context.fetches) <= 1
    /\ context.pending <=> context.fetches # <<>>
    /\ (context.last.event = "settled" /\ context.last.result # NoPct) =>
           \A k \in 1..Len(context.last.returned) :
               context.last.returned[k] = context.last.result

\* two calls awaited one fetch, which has given both its result
C16_Witness ==
    /\ context.last.event = "settled"
    /\ context.last.returned = <<45, 45>>
    /\ context.probes = 1
    /\ ~context.pending
    /\ context.fetches = <<>>


\* C21: resizeSession on a listed session gives the session's detector what
\* onResize gives it (the resize cooldown), so that a working session with
\* no draft is idle after the call.
C21_ResizeSignalsDetector ==
    [][ \A id \in 1..MaxSessions :
          (id \in Listed /\ resizeSession(id))
          => /\ sessions'[id].statusDetector = onResize(sessions[id].statusDetector).det
             /\ (sessions[id].status = "working" /\ sessions[id].statusDetector.draftLength = 0)
                    => sessions'[id].status = "idle" ]_vars


\* the PtyHandlers made for session id
PtysOf(id) == {p \in 1..Len(ptys) : ptys[p].session = id}

\* C22: getBuffer(id) returns the buffer of the PtyHandler made last for the
\* session, whether its process runs, has exited or was killed by
\* archiveSession.
C22_BufferOfLastPty ==
    \A id \in Listed : \A p \in PtysOf(id) :
        (\A q \in PtysOf(id) : q <= p) => getBuffer(sessions, ptys, id) = ptys[p].buffer


\* C23: once kill() was called on a PtyHandler, data its process still
\* delivers makes the manager emit no output event.
C23_NoOutputAfterKill ==
    [][ \A p \in 1..MaxPtys : \A data \in SessionOutputs :
          (ptyData(p, data) /\ ~ptys[p].pty)
          => \A i \in DOMAIN emitted' : emitted'[i].type # "output" ]_vars


(***************************************************************************)
(* Properties of the PtyHandler, under BufferSpec                          *)
(***************************************************************************)
\* C24: after every chunk, of whatever size, the buffer of the PtyHandler is
\* at most 1048576 characters long.
C24_BufferAtMostCap == handler.length <= BufferCap

\* a single chunk longer than the cap came into an empty buffer, and the
\* handler cut
C24_Witness ==
    /\ handler.chunks = 1
    /\ handler.last > BufferCap
    /\ handler.truncated
    /\ handler.length > 0


\* C25: what getBuffer() of a PtyHandler returns begins with the reset
\* prefix, for either copy of the PtyHandler and whatever its buffer holds.
C25_BufferBeginsWithReset ==
    \A p \in 1..Len(ptys) : \A copy \in {"pty-handler", "summarizer"} :
        MatchAt(handlerGetBuffer(copy, ptys[p].buffer), ResetPrefix, 1)


\* C26: _captureFirstInput is called at most once for a session, and a
\* sendInput on a session whose first input was captured changes neither
\* originalPrompt nor summary and starts no summarize call.
C26_CaptureAtMostOnce ==
    [][ /\ \A id \in 1..Len(sessions') : sessions'[id].captures <= 1
        /\ \A id \in 1..MaxSessions : \A data \in SessionInputs :
              (id \in Listed /\ sendInput(id, data) /\ sessions[id].firstInputCaptured)
              => /\ sessions'[id].originalPrompt = sessions[id].originalPrompt
                 /\ sessions'[id].summary = sessions[id].summary
                 /\ summarizing' = summarizing ]_vars

\* the first line of a session was captured and summarized, and a character
\* typed after that went to the detector and not to the input buffer
C26_Witness ==
    \E id \in Listed :
        /\ sessions[id].captures = 1
        /\ sessions[id].originalPrompt = <<"a">>
        /\ sessions[id].summary = <<"a">>
        /\ sessions[id].statusDetector.draftLength = 1
        /\ sessions[id].inputBuffer = <<>>
        /\ id \notin summarizing


(***************************************************************************)
(* Properties of the first-input capture, under SumSpec and SumFairSpec    *)
(***************************************************************************)
\* C27: when the cleaned first line is not empty and at most 100 characters
\* long, originalPrompt and summary are that cleaned line and no external
\* process was spawned; one is spawned only for a cleaned line longer than
\* 100 characters.
C27_ShortPromptPassesThrough ==
    LET cleaned == Trim(StripControl(StripOsc(StripCsi(capture.input, 1), 1)))
    IN  /\ (capture.phase \notin {"new"} /\ cleaned # <<>> /\ Len(cleaned) <= 100)
               => /\ capture.phase = "done"
                  /\ capture.originalPrompt = cleaned
                  /\ capture.summary = cleaned
                  /\ ~capture.asked
                  /\ capture.proc = "none"
        /\ capture.asked => Len(cleaned) > 100

\* a first line of colour sequences around three letters was captured
C27_Witness ==
    /\ capture.phase = "done"
    /\ capture.input = <<ESC, "[", "1", "m", "f", "i", "x", ESC, "[", "0", "m", CR>>
    /\ capture.originalPrompt = <<"f", "i", "x">>
    /\ capture.summary = <<"f", "i", "x">>
    /\ ~capture.asked

\* C28: what summarize returns is at most 100 characters long, whether it
\* is the short prompt, the external summary or the truncation after a
\* failure or a timeout.
C28_SummaryAtMost100 == Len(capture.returned) <= 100

\* C29: every sendInput writes its bytes in the same step, whatever the
\* summarize call is doing, and a summarize call that awaits the external
\* process returns in the end, even when the process never closes.
C29_SummarizerNeverBlocks ==
    /\ [][ (SumSendInput \/ SumLaterInput) => capture'.forwarded = capture.forwarded + 1 ]_vars
    /\ (capture.phase = "asking") ~> (capture.phase = "done")

\* the timeout ended a summarize call whose process had not closed, after two
\* more inputs had been written while it was pending
C29_Witness ==
    /\ capture.phase = "done"
    /\ capture.proc = "killed"
    /\ capture.sinceSpawn = AskTimeoutMs
    /\ capture.forwarded = 3
    /\ capture.returned # <<>>


\* C30: sendInput, archiveSession, unarchiveSession, renameSession,
\* resizeSession and deleteSession called with an id that is not in the map
\* change no session, spawn and kill no process, start no summarize call,
\* throw nothing and emit no event, and getBuffer of such an id is empty.
C30_UnknownIdIsNoOp ==
    [][ \A id \in 1..MaxSessions :
          ( /\ id \notin Listed
            /\ \/ \E data \in SessionInputs : sendInput(id, data)
               \/ archiveSession(id)
               \/ unarchiveSession(id)
               \/ \E name \in SessionNames : renameSession(id, name)
               \/ resizeSession(id)
               \/ deleteSession(id) )
          => /\ sessions' = sessions
             /\ ptys' = ptys
             /\ summarizing' = summarizing
             /\ emitted' = <<>>
             /\ ~thrown'
             /\ getBuffer(sessions', ptys', id) = <<>> ]_vars

\* the only session was deleted while its process ran and its first line was
\* being summarized, and a call made after that emitted nothing
C30_Witness ==
    /\ Len(sessions) = 1
    /\ ~sessions[1].listed
    /\ Len(ptys) = 1
    /\ ptys[1].process = "killed"
    /\ summarizing = {1}
    /\ emitted = <<>>
    /\ ~thrown
    /\ tickInterval


(***************************************************************************)
(* Further properties of the StatusDetector, under DetSpec                 *)
(***************************************************************************)
\* C31: an output that arrives less than BurstResetMs after the output before
\* it never empties the burst buffer: in every detector state where the
\* previous output is less than BurstResetMs old, an onOutput call that passes
\* the cooldown and the redraw test appends its visible text to the burst
\* buffer as it stood.
C31_BurstResetBySilence ==
    (det.cooldownLeft = 0 /\ det.sinceOutput < BurstResetMs) =>
        \A data \in OutputChunks :
            ~isUiRedraw(data) =>
                onOutput(det, data).det.outputBuffer = det.outputBuffer \o stripAnsi(data)


\* chunks with a cursor-up, a line-erase and a cursor-to-column sequence
RedrawChunks ==
    { RedrawContinue, RedrawLong25,
      <<ESC, "[", "A">> \o Short8,
      <<ESC, "[", "G">> \o Long25,
      Short8 \o <<ESC, "[", "1", "2", "G">> \o ContinueYN }

\* C32: an output chunk that isUiRedraw classifies as a redraw is appended to
\* the rolling window and leaves the burst buffer, the debounce timer and the
\* status as they were, with nothing passed to onStatusChange: in every
\* onOutput step of the detector, and for every redraw chunk in every state.
C32_RedrawOnlyInWindow ==
    /\ [][ (outputs' = outputs + 1 /\ isUiRedraw(det'.lastOutput))
           => /\ det'.terminalBuffer = SliceLast(det.terminalBuffer \o det'.lastOutput, WindowCap)
              /\ det'.outputBuffer = det.outputBuffer
              /\ det'.pendingWorkingTimeout = det.pendingWorkingTimeout
              /\ det'.status = det.status
              /\ fired' = <<>> ]_vars
    /\ [](\A data \in RedrawChunks :
            LET r == onOutput(det, data)
            IN  /\ isUiRedraw(data)
                /\ r.det.terminalBuffer = SliceLast(det.terminalBuffer \o data, WindowCap)
                /\ r.det.outputBuffer = det.outputBuffer
                /\ r.det.pendingWorkingTimeout = det.pendingWorkingTimeout
                /\ r.det.status = det.status
                /\ r.fired = <<>>)

\* an onOutput call with cursor-up and 25 visible characters has just
\* returned, outside any cooldown, on an idle detector with no draft whose
\* burst buffer is empty: the chunk is in the window and nothing else moved
C32_Witness ==
    /\ det.sinceOutput = 0
    /\ det.lastOutput = RedrawLong25
    /\ det.cooldownLeft = 0
    /\ det.draftLength = 0
    /\ EndsIn(det.terminalBuffer, RedrawLong25)
    /\ det.outputBuffer = <<>>
    /\ det.pendingWorkingTimeout = NoTimer
    /\ det.status = "idle"


\* C33: the working debounce.  A timer is set only by an onOutput call, for
\* DebounceMs, when none is pending and the burst buffer neither matches a
\* waiting pattern nor holds more than BurstThreshold characters; at most one
\* callback is pending at any time; a pending timer is never set again; the
\* callback makes the status working only with more than DebounceThreshold
\* characters in the burst buffer and no draft, and a burst buffer of at most
\* DebounceThreshold characters never makes a detector working.
C33_WorkingDebounce ==
    /\ [](/\ det.timers <= 1
          /\ det.timers = 1 <=> det.pendingWorkingTimeout # NoTimer)
    /\ [][ /\ det'.timers > det.timers
              => /\ outputs' = outputs + 1
                 /\ det.pendingWorkingTimeout = NoTimer
                 /\ det'.pendingWorkingTimeout = DebounceMs
                 /\ ~MatchesWaiting(det'.outputBuffer)
                 /\ Len(det'.outputBuffer) <= BurstThreshold
                 /\ det'.status = det.status
           /\ (outputs' = outputs + 1 /\ det.pendingWorkingTimeout # NoTimer)
              => det'.pendingWorkingTimeout = det.pendingWorkingTimeout
           /\ (det'.timers < det.timers /\ det'.status # det.status)
              => /\ det'.status = "working"
                 /\ Len(det.outputBuffer) > DebounceThreshold
                 /\ det.draftLength = 0
           /\ (/\ det'.timers < det.timers \/ outputs' = outputs + 1
               /\ Len(det'.outputBuffer) <= DebounceThreshold
               /\ det.status # "working")
              => det'.status # "working" ]_vars

\* the callback of the timer has just made an idle detector working, on a
\* burst buffer between the two thresholds that matches no waiting pattern
C33_Witness ==
    /\ fired = <<[by |-> "timeout", status |-> "working"]>>
    /\ det.status = "working"
    /\ det.timers = 0
    /\ det.pendingWorkingTimeout = NoTimer
    /\ Len(det.outputBuffer) > DebounceThreshold
    /\ Len(det.outputBuffer) <= BurstThreshold
    /\ ~MatchesWaiting(det.outputBuffer)
    /\ det.draftLength = 0


\* the terminal's answer to a device-attributes query, ESC [ ? 1 ; 2 c
DeviceAttributes == <<ESC, "[", "?", "1", ";", "2", "c">>

\* inputs that hold nothing but answers of the terminal to a query
ResponseInputs == {CursorReport, CursorReport \o CursorReport, DeviceAttributes}

\* C34: the transition function of onInput.  In every detector state: an
\* input that holds only escape-sequence answers of the terminal changes
\* neither the draft length nor the status and notifies nothing; an input
\* with Enter sets the draft length to 0 and makes the status working exactly
\* when it was draft; any other input leaves a draft length that is not
\* negative, then a positive draft length with a status other than working
\* gives draft and a draft length of 0 with status draft gives idle.
C34_OnInputTransitions ==
    /\ det.draftLength >= 0
    /\ \A data \in ResponseInputs :
          /\ onInput(det, data).det = det
          /\ onInput(det, data).fired = <<>>
    /\ \A data \in InputChunks \ ResponseInputs :
          LET r == onInput(det, data)
          IN  /\ r.det.draftLength >= 0
              /\ IF \E i \in DOMAIN data : data[i] \in {CR, LF}
                 THEN /\ r.det.draftLength = 0
                      /\ r.det.status = IF det.status = "draft" THEN "working" ELSE det.status
                 ELSE r.det.status =
                         IF r.det.draftLength > 0 /\ det.status # "working" THEN "draft"
                         ELSE IF r.det.draftLength = 0 /\ det.status = "draft" THEN "idle"
                         ELSE det.status


\* the status tick() is to give a working detector that has been silent for
\* more than SilenceMs
AfterSilence(d) ==
    IF MatchesWaiting(d.terminalBuffer) THEN "waiting"
    ELSE IF MatchesIdle(d.terminalBuffer) THEN "idle"
    ELSE IF d.draftLength > 0 THEN "draft"
    ELSE "idle"

\* C35: tick() on a working detector with more than SilenceMs since the last
\* output changes the status, and nothing else, to waiting when the rolling
\* window matches a waiting pattern, else to idle when it matches an idle
\* pattern, else to draft when a draft is in progress, else to idle, and
\* notifies that status; in every other state tick() changes nothing and
\* notifies nothing.
C35_TickOrder ==
    /\ [](IF det.status = "working" /\ det.sinceOutput > SilenceMs
          THEN /\ tick(det).det = [det EXCEPT !.status = AfterSilence(det)]
               /\ tick(det).fired = <<AfterSilence(det)>>
          ELSE /\ tick(det).det = det
               /\ tick(det).fired = <<>>)
    /\ [][ (fired' # <<>> /\ fired'[1].by = "tick")
           => /\ det.status = "working"
              /\ det.sinceOutput > SilenceMs
              /\ det' = [det EXCEPT !.status = AfterSilence(det)]
              /\ fired'[1].status = AfterSilence(det) ]_vars

\* tick() has just made a silent working detector draft: its window matches
\* neither a waiting nor an idle pattern and a draft is in progress
C35_Witness ==
    /\ fired = <<[by |-> "tick", status |-> "draft"]>>
    /\ det.status = "draft"
    /\ det.sinceOutput > SilenceMs
    /\ det.draftLength > 0
    /\ det.terminalBuffer # <<>>
    /\ ~MatchesWaiting(det.terminalBuffer)
    /\ ~MatchesIdle(det.terminalBuffer)


\* C37: in every reachable state of a detector, after any sequence of
\* onOutput, onInput, tick, onResize and timer callbacks, status draft comes
\* with a draft length greater than 0.
C37_DraftHasLength == det.status = "draft" => det.draftLength > 0

\* an onInput call has just deleted the last character of a draft and made
\* the detector idle
C37_Witness ==
    /\ fired = <<[by |-> "onInput", status |-> "idle"]>>
    /\ det.status = "idle"
    /\ det.draftLength = 0

(***************************************************************************)
(* Termination of the usage probe, under UsageFairSpec                     *)
(***************************************************************************)
\* the verified cache is empty or has expired
StaleUsage(u) == u.accurateCache.null \/ u.sinceCacheTime >= accurateCacheTTL

\* C36: every fetch of the verified usage settles, by a result, a failure or
\* the timer, even when the probe never closes; whenever no fetch is in
\* flight fetchInProgress is false, and a getAccurateUsage() call that then
\* finds the cache stale starts a new probe.
C36_ProbeTerminates ==
    /\ (usage.inFlight > 0) ~> (usage.inFlight = 0 /\ ~usage.fetchInProgress)
    /\ [](usage.inFlight = 0 =>
            /\ ~usage.fetchInProgress
            /\ StaleUsage(usage) =>
                  /\ getAccurateUsage(usage).probes = usage.probes + 1
                  /\ getAccurateUsage(usage).inFlight = 1)

\* the timer has just ended the second fetch of a tracker: nothing is in
\* flight, the marker is cleared and the cache is as stale as before
C36_Witness ==
    /\ usage.last.call = "timeout"
    /\ usage.probes = 2
    /\ usage.inFlight = 0
    /\ ~usage.fetchInProgress
    /\ StaleUsage(usage)


(***************************************************************************)
(* Further properties of the SessionManager, under SMSpec                  *)
(***************************************************************************)
\* C38: the status stored in a session equals the status its StatusDetector
\* holds, in every state where the session is not in error.
C38_StatusIsDetectorStatus ==
    \A id \in Listed :
        sessions[id].status # "error" =>
            sessions[id].status = sessions[id].statusDetector.status


\* C39: once deleteSession(id) has returned, no output, status or summary
\* event that carries the id is emitted: not by data of the killed process,
\* not by its exit, not by the debounce timer, not by the summarizer.
C39_NoEventsAfterDelete ==
    [][ \A id \in Created :
            ~sessions[id].listed =>
                \A i \in DOMAIN emitted' :
                    emitted'[i].type \in {"output", "status", "summary"}
                        => emitted'[i].sessionId # id ]_vars


\* C40: while a session is archived its status stays idle: a step that starts
\* and ends with the session archived leaves its status idle and emits no
\* status event for it other than idle, whatever the step is (a tick, the
\* debounce timer, late output, the exit of the process, input).
C40_ArchivedStaysIdle ==
    [][ \A id \in Listed :
            (sessions[id].archived /\ sessions'[id].listed /\ sessions'[id].archived)
            => /\ sessions'[id].status = "idle"
               /\ \A i \in DOMAIN emitted' :
                     (emitted'[i].type = "status" /\ emitted'[i].sessionId = id)
                        => emitted'[i].status = "idle" ]_vars

====
